---- MODULE Spec2Model ----
(***************************************************************************)
(* Chef Planner: the recipe engine (variant generator, target-based        *)
(* tiering, star rating, segment fit) and the compatibility lookups, as a  *)
(* state machine over the calls a session makes.                           *)
(*                                                                         *)
(* Numbers.  Money is counted in hundredths of a cent (Cent == 100 units): *)
(* catalog unit costs and cost expectations are given to the cent, so the  *)
(* products by 1.5, 2.5, 1.1, 0.85 ... of the code are whole units and     *)
(* round(x, 2) is rounding to a multiple of Cent.  Scores are counted in   *)
(* hundredths of a point.  Comparisons of the code between floats are made *)
(* on these exact values.                                                  *)
(***************************************************************************)
EXTENDS Integers, Sequences, FiniteSets, TLC

VARIABLES
    ingredients_df,      \* the ingredient catalog, one record per row, in row order
    matches_df,          \* the match list, one record per row, in row order
    generator_segment,   \* what the name `segment` is bound to in the globals of logic/generator.py
    call,                \* the running generate_variants activation
    variants,            \* the variants the caller holds (st.session_state.generated_variants)
    last,                \* the last call that ended: its function, arguments and result
    menu_items,          \* the saved recipes (st.session_state.menu_items), in list order
    tier_dicts           \* the tier dictionaries the saved recipes refer to, by object identity

vars == <<ingredients_df, matches_df, generator_segment, call, variants, last, menu_items, tier_dicts>>

None == "None"
Unbound == [unbound |-> TRUE]

\* Python's None where a catalog row is expected
NoIngredient ==
    [name |-> None, tags |-> {}, flavor_values |-> [x \in {} |-> 0],
     quality_costs |-> [x \in {} |-> 0]]

(***************************************************************************)
(* Small helpers on sequences and functions.                               *)
(***************************************************************************)
Min(a, b) == IF a <= b THEN a ELSE b
Max(a, b) == IF a >= b THEN a ELSE b
Abs(x) == IF x < 0 THEN -x ELSE x

Range(s) == {s[i] : i \in DOMAIN s}

\* list[lo:hi] of Python (0-based, hi exclusive, clipped to the list)
Slice(s, lo, hi) ==
    LET l == Min(Max(lo, 0), Len(s))
        h == Min(Max(hi, l), Len(s))
    IN  [i \in 1..(h - l) |-> s[l + i]]

\* the list without its element at (1-based) position i: list.pop(i-1)
Pop(s, i) == [j \in 1..(Len(s) - 1) |-> IF j < i THEN s[j] ELSE s[j + 1]]

\* the rows of s that satisfy Keep, in order: df[mask]
Filter(s, Keep(_)) == SelectSeq(s, Keep)

\* dict[k] = v
Put(m, k, v) == [x \in (DOMAIN m) \cup {k} |-> IF x = k THEN v ELSE m[x]]

\* 'w in s' for two strings spelt as character sequences
IsSubstring(w, s) ==
    \E k \in 0..(Len(s) - Len(w)) : \A i \in 1..Len(w) : s[k + i] = w[i]

(***************************************************************************)
(* templates_catalog.py                                                    *)
(***************************************************************************)
TEMPLATES_CATALOG ==
    ("Pasta" :> [category |-> "Pasta & Riso", points |-> 0])
 @@ ("Gnocchi" :> [category |-> "Pasta & Riso", points |-> 15])
 @@ ("Lasagne" :> [category |-> "Pasta & Riso", points |-> 5])
 @@ ("Stuffed Pasta" :> [category |-> "Pasta & Riso", points |-> 15])
 @@ ("Sautéed Rice" :> [category |-> "Pasta & Riso", points |-> 0])
 @@ ("Risotto" :> [category |-> "Pasta & Riso", points |-> 15])
 @@ ("Paella" :> [category |-> "Pasta & Riso", points |-> 15])
 @@ ("Rice Pie" :> [category |-> "Pasta & Riso", points |-> 5])
 @@ ("Grilled Meat" :> [category |-> "Carne", points |-> 0])
 @@ ("Meat Stew" :> [category |-> "Carne", points |-> 0])
 @@ ("Roasted Meat" :> [category |-> "Carne", points |-> 5])
 @@ ("Boiled Meat" :> [category |-> "Carne", points |-> 5])
 @@ ("Stuffed Meat" :> [category |-> "Carne", points |-> 15])
 @@ ("Meatballs" :> [category |-> "Carne", points |-> 5])
 @@ ("Braised Meat" :> [category |-> "Carne", points |-> 15])
 @@ ("Meat Tartare" :> [category |-> "Carne", points |-> 15])
 @@ ("Fried Meat" :> [category |-> "Carne", points |-> 15])
 @@ ("Grilled Fish" :> [category |-> "Pesce", points |-> 0])
 @@ ("Steamed Fish" :> [category |-> "Pesce", points |-> 0])
 @@ ("Roasted Fish" :> [category |-> "Pesce", points |-> 5])
 @@ ("Fish Soup" :> [category |-> "Pesce", points |-> 5])
 @@ ("Fish Tartare" :> [category |-> "Pesce", points |-> 15])
 @@ ("Fried Fish" :> [category |-> "Pesce", points |-> 15])
 @@ ("Sautéed Veggies" :> [category |-> "Vegetariano", points |-> 0])
 @@ ("Salad" :> [category |-> "Vegetariano", points |-> 0])
 @@ ("Grilled Veggies" :> [category |-> "Vegetariano", points |-> 0])
 @@ ("Steamed Veggies" :> [category |-> "Vegetariano", points |-> 5])
 @@ ("Roasted Veggies" :> [category |-> "Vegetariano", points |-> 5])
 @@ ("Vegetable Soup" :> [category |-> "Vegetariano", points |-> 5])
 @@ ("Velvety" :> [category |-> "Vegetariano", points |-> 15])
 @@ ("Fried Veggies" :> [category |-> "Vegetariano", points |-> 15])
 @@ ("Pie" :> [category |-> "Dessert", points |-> 0])
 @@ ("Cookies" :> [category |-> "Dessert", points |-> 0])
 @@ ("Semifreddo" :> [category |-> "Dessert", points |-> 5])
 @@ ("Pastries" :> [category |-> "Dessert", points |-> 5])
 @@ ("Cheesecake" :> [category |-> "Dessert", points |-> 5])
 @@ ("Ice Cream" :> [category |-> "Dessert", points |-> 15])
 @@ ("Fried Dessert" :> [category |-> "Dessert", points |-> 15])
 @@ ("Millefeuille" :> [category |-> "Dessert", points |-> 15])
 @@ ("Hamburger" :> [category |-> "Burger", points |-> 0])
 @@ ("Fish Burger" :> [category |-> "Burger", points |-> 0])
 @@ ("Veggie Burger" :> [category |-> "Burger", points |-> 0])

\* template.lower(), spelt out; "Sushi" stands for a template outside the catalog
Lower ==
    ("Pasta" :> <<"p", "a", "s", "t", "a">>)
 @@ ("Gnocchi" :> <<"g", "n", "o", "c", "c", "h", "i">>)
 @@ ("Lasagne" :> <<"l", "a", "s", "a", "g", "n", "e">>)
 @@ ("Stuffed Pasta" :> <<"s", "t", "u", "f", "f", "e", "d", " ", "p", "a", "s", "t", "a">>)
 @@ ("Sautéed Rice" :> <<"s", "a", "u", "t", "é", "e", "d", " ", "r", "i", "c", "e">>)
 @@ ("Risotto" :> <<"r", "i", "s", "o", "t", "t", "o">>)
 @@ ("Paella" :> <<"p", "a", "e", "l", "l", "a">>)
 @@ ("Rice Pie" :> <<"r", "i", "c", "e", " ", "p", "i", "e">>)
 @@ ("Grilled Meat" :> <<"g", "r", "i", "l", "l", "e", "d", " ", "m", "e", "a", "t">>)
 @@ ("Meat Stew" :> <<"m", "e", "a", "t", " ", "s", "t", "e", "w">>)
 @@ ("Roasted Meat" :> <<"r", "o", "a", "s", "t", "e", "d", " ", "m", "e", "a", "t">>)
 @@ ("Boiled Meat" :> <<"b", "o", "i", "l", "e", "d", " ", "m", "e", "a", "t">>)
 @@ ("Stuffed Meat" :> <<"s", "t", "u", "f", "f", "e", "d", " ", "m", "e", "a", "t">>)
 @@ ("Meatballs" :> <<"m", "e", "a", "t", "b", "a", "l", "l", "s">>)
 @@ ("Braised Meat" :> <<"b", "r", "a", "i", "s", "e", "d", " ", "m", "e", "a", "t">>)
 @@ ("Meat Tartare" :> <<"m", "e", "a", "t", " ", "t", "a", "r", "t", "a", "r", "e">>)
 @@ ("Fried Meat" :> <<"f", "r", "i", "e", "d", " ", "m", "e", "a", "t">>)
 @@ ("Grilled Fish" :> <<"g", "r", "i", "l", "l", "e", "d", " ", "f", "i", "s", "h">>)
 @@ ("Steamed Fish" :> <<"s", "t", "e", "a", "m", "e", "d", " ", "f", "i", "s", "h">>)
 @@ ("Roasted Fish" :> <<"r", "o", "a", "s", "t", "e", "d", " ", "f", "i", "s", "h">>)
 @@ ("Fish Soup" :> <<"f", "i", "s", "h", " ", "s", "o", "u", "p">>)
 @@ ("Fish Tartare" :> <<"f", "i", "s", "h", " ", "t", "a", "r", "t", "a", "r", "e">>)
 @@ ("Fried Fish" :> <<"f", "r", "i", "e", "d", " ", "f", "i", "s", "h">>)
 @@ ("Sautéed Veggies" :> <<"s", "a", "u", "t", "é", "e", "d", " ", "v", "e", "g", "g", "i", "e", "s">>)
 @@ ("Salad" :> <<"s", "a", "l", "a", "d">>)
 @@ ("Grilled Veggies" :> <<"g", "r", "i", "l", "l", "e", "d", " ", "v", "e", "g", "g", "i", "e", "s">>)
 @@ ("Steamed Veggies" :> <<"s", "t", "e", "a", "m", "e", "d", " ", "v", "e", "g", "g", "i", "e", "s">>)
 @@ ("Roasted Veggies" :> <<"r", "o", "a", "s", "t", "e", "d", " ", "v", "e", "g", "g", "i", "e", "s">>)
 @@ ("Vegetable Soup" :> <<"v", "e", "g", "e", "t", "a", "b", "l", "e", " ", "s", "o", "u", "p">>)
 @@ ("Velvety" :> <<"v", "e", "l", "v", "e", "t", "y">>)
 @@ ("Fried Veggies" :> <<"f", "r", "i", "e", "d", " ", "v", "e", "g", "g", "i", "e", "s">>)
 @@ ("Pie" :> <<"p", "i", "e">>)
 @@ ("Cookies" :> <<"c", "o", "o", "k", "i", "e", "s">>)
 @@ ("Semifreddo" :> <<"s", "e", "m", "i", "f", "r", "e", "d", "d", "o">>)
 @@ ("Pastries" :> <<"p", "a", "s", "t", "r", "i", "e", "s">>)
 @@ ("Cheesecake" :> <<"c", "h", "e", "e", "s", "e", "c", "a", "k", "e">>)
 @@ ("Ice Cream" :> <<"i", "c", "e", " ", "c", "r", "e", "a", "m">>)
 @@ ("Fried Dessert" :> <<"f", "r", "i", "e", "d", " ", "d", "e", "s", "s", "e", "r", "t">>)
 @@ ("Millefeuille" :> <<"m", "i", "l", "l", "e", "f", "e", "u", "i", "l", "l", "e">>)
 @@ ("Hamburger" :> <<"h", "a", "m", "b", "u", "r", "g", "e", "r">>)
 @@ ("Fish Burger" :> <<"f", "i", "s", "h", " ", "b", "u", "r", "g", "e", "r">>)
 @@ ("Veggie Burger" :> <<"v", "e", "g", "g", "i", "e", " ", "b", "u", "r", "g", "e", "r">>)
 @@ ("Sushi" :> <<"s", "u", "s", "h", "i">>)

\* the words the code searches template names for
Word ==
    ("fish" :> <<"f", "i", "s", "h">>)
 @@ ("meat" :> <<"m", "e", "a", "t">>)
 @@ ("meatballs" :> <<"m", "e", "a", "t", "b", "a", "l", "l", "s">>)
 @@ ("veggies" :> <<"v", "e", "g", "g", "i", "e", "s">>)
 @@ ("vegetable" :> <<"v", "e", "g", "e", "t", "a", "b", "l", "e">>)
 @@ ("salad" :> <<"s", "a", "l", "a", "d">>)
 @@ ("velvety" :> <<"v", "e", "l", "v", "e", "t", "y">>)
 @@ ("pasta" :> <<"p", "a", "s", "t", "a">>)
 @@ ("rice" :> <<"r", "i", "c", "e">>)
 @@ ("risotto" :> <<"r", "i", "s", "o", "t", "t", "o">>)
 @@ ("paella" :> <<"p", "a", "e", "l", "l", "a">>)
 @@ ("gnocchi" :> <<"g", "n", "o", "c", "c", "h", "i">>)
 @@ ("lasagne" :> <<"l", "a", "s", "a", "g", "n", "e">>)

Contains(template_name, w) == IsSubstring(Word[w], Lower[template_name])
AnyWord(template_name, ws) == \E w \in ws : Contains(template_name, w)

\* the list repeated at templates_catalog.py:181 and generator.py:92
DessertNames ==
    {"Pie", "Cookies", "Semifreddo", "Pastries", "Cheesecake", "Ice Cream",
     "Fried Dessert", "Millefeuille"}

\* The message is kept as its leading mark ("cross" for the cross mark the
\* generator searches the text for, "warning", "check", "" for none) and the
\* rule that produced it.  anchor_ingredient is a catalog row or NoIngredient.
Verdict(ok, mark, rule) == [is_compatible |-> ok, mark |-> mark, rule |-> rule]

\* a check that passes every anchor that is given
check_template_compatibility_lenient(template_name, anchor_ingredient) ==
    IF anchor_ingredient = NoIngredient THEN Verdict(FALSE, "", "no anchor")
    ELSE Verdict(TRUE, "check", "none")

check_template_compatibility(template_name, anchor_ingredient) ==
    IF anchor_ingredient = NoIngredient THEN Verdict(FALSE, "", "no anchor")
    ELSE LET anchor_tags == anchor_ingredient.tags IN
    IF Contains(template_name, "fish") /\ "Seafood" \notin anchor_tags
        THEN Verdict(FALSE, "cross", "fish")
    ELSE IF AnyWord(template_name, {"meat", "meatballs"}) /\ "Meat" \notin anchor_tags
        THEN Verdict(FALSE, "cross", "meat")
    ELSE IF AnyWord(template_name, {"veggies", "vegetable", "salad", "velvety"})
            /\ ("Meat" \in anchor_tags \/ "Seafood" \in anchor_tags)
        THEN Verdict(FALSE, "cross", "vegetarian")
    ELSE IF template_name = "Veggie Burger"
            /\ ("Meat" \in anchor_tags \/ "Seafood" \in anchor_tags)
        THEN Verdict(FALSE, "cross", "veggie burger")
    ELSE IF AnyWord(template_name, {"pasta", "rice", "risotto", "paella", "gnocchi", "lasagne"})
            /\ anchor_tags \cap {"Pasta", "Rice", "Carbs"} = {}
        THEN Verdict(TRUE, "warning", "carb")
    ELSE IF template_name \in DessertNames
            /\ ("Seafood" \in anchor_tags \/ "Meat" \in anchor_tags)
        THEN Verdict(FALSE, "cross", "dessert")
    ELSE Verdict(TRUE, "check", "none")

(***************************************************************************)
(* Compatibility of pairs: the row lookups of logic/generator.py and       *)
(* domain_utils.py.  An edge is a row [A, B, MatchValue] of matches_df.    *)
(***************************************************************************)
Edge(a, b, v) == [A |-> a, B |-> b, MatchValue |-> v]

\* matches_df[((A == a) & (B == b)) | ((A == b) & (B == a))]
\* a lookup that reads the rows in one direction only
JoinsPair_directed(e, a, b) == e.A = a /\ e.B = b

JoinsPair(e, a, b) == (e.A = a /\ e.B = b) \/ (e.A = b /\ e.B = a)

PairRows(df, a, b) ==
    LET Joins(e) == JoinsPair(e, a, b) IN Filter(df, Joins)

\* the value score_combo and avg_matchvalue add for a pair: the first matching
\* row's MatchValue, 1 when no row matches
PairValue(df, a, b) ==
    LET match == PairRows(df, a, b)
    IN  IF match # <<>> THEN match[1].MatchValue ELSE 1

\* a test that forgets 'match.empty'
PairStrong_missing_passes(df, a, b) ==
    LET match == PairRows(df, a, b)
    IN  match = <<>> \/ match[1].MatchValue >= 2

\* 'match.empty or MatchValue < 2' negated: the pair is strong
PairStrong(df, a, b) ==
    LET match == PairRows(df, a, b)
    IN  ~(match = <<>> \/ match[1].MatchValue < 2)

\* the loops over i < j < k of _count_triangles, one loop each: the innermost
\* from k on for a pair i, j
RECURSIVE TrianglesOfPair(_, _, _, _, _)
TrianglesOfPair(ingredients, df, i, j, k) ==
    IF k > Len(ingredients) THEN 0
    ELSE (IF /\ PairStrong(df, ingredients[i], ingredients[j])
             /\ PairStrong(df, ingredients[i], ingredients[k])
             /\ PairStrong(df, ingredients[j], ingredients[k])
          THEN 1 ELSE 0)
         + TrianglesOfPair(ingredients, df, i, j, k + 1)

\* the middle loop, from j on for a first index i
RECURSIVE TrianglesOfFirst(_, _, _, _)
TrianglesOfFirst(ingredients, df, i, j) ==
    IF j > Len(ingredients) THEN 0
    ELSE TrianglesOfPair(ingredients, df, i, j, j + 1)
         + TrianglesOfFirst(ingredients, df, i, j + 1)

\* the outer loop from i on; j and k are where the inner loops stand in its
\* first turn
RECURSIVE TrianglesFrom(_, _, _, _, _)
TrianglesFrom(ingredients, df, i, j, k) ==
    IF i > Len(ingredients) THEN 0
    ELSE IF j > Len(ingredients) THEN TrianglesFrom(ingredients, df, i + 1, i + 2, i + 3)
    ELSE TrianglesOfPair(ingredients, df, i, j, k)
         + TrianglesOfFirst(ingredients, df, i, j + 1)
         + TrianglesFrom(ingredients, df, i + 1, i + 2, i + 3)

count_triangles(ingredients, df) ==
    IF Len(ingredients) < 3 THEN 0
    ELSE TrianglesFrom(ingredients, df, 1, 2, 3)

\* the loops over i < j of score_combo / avg_matchvalue: the sum of the values,
\* the inner loop from j on for a first index i
RECURSIVE PairSumOfFirst(_, _, _, _)
PairSumOfFirst(ingredients, df, i, j) ==
    IF j > Len(ingredients) THEN 0
    ELSE PairValue(df, ingredients[i], ingredients[j])
         + PairSumOfFirst(ingredients, df, i, j + 1)

\* and the outer loop from i on
RECURSIVE PairSumFrom(_, _, _, _)
PairSumFrom(ingredients, df, i, j) ==
    IF i > Len(ingredients) THEN 0
    ELSE PairSumOfFirst(ingredients, df, i, j)
         + PairSumFrom(ingredients, df, i + 1, i + 2)

PairCount(ingredients) == (Len(ingredients) * (Len(ingredients) - 1)) \div 2

\* A float that is a quotient of the code is kept exact, as num / den.
Frac(n, d) == [num |-> n, den |-> d]

\* total_score / max(pair_count, 1) + triangles * 0.5
score_combo(ingredients, df) ==
    IF Len(ingredients) < 2 THEN Frac(0, 1)
    ELSE LET total == PairSumFrom(ingredients, df, 1, 2)
             pairs == Max(PairCount(ingredients), 1)
         IN  Frac(2 * total + count_triangles(ingredients, df) * pairs, 2 * pairs)

(***************************************************************************)
(* logic/generator.py                                                      *)
(***************************************************************************)
Styles == <<"classico", "fresco", "umami">>
Axes == {"SOUR", "SALT", "ACID", "SWEET", "FAT", "UMAMI"}
EmptyMap == [x \in {} |-> None]

RecipeVariant(ingredients, roles, tiers, flavor_profile, compatibility_avg, triangles, notes, style) ==
    [ingredients |-> ingredients, roles |-> roles, tiers |-> tiers,
     flavor_profile |-> flavor_profile, compatibility_avg |-> compatibility_avg,
     triangles |-> triangles, notes |-> notes, style |-> style]

get_template_category(template) ==
    IF template \in DOMAIN TEMPLATES_CATALOG
    THEN TEMPLATES_CATALOG[template].category
    ELSE "Unknown"

get_ingredient_range(category) ==
    CASE category = "Pasta & Riso" -> <<6, 12>>
      [] category = "Carne"        -> <<5, 10>>
      [] category = "Pesce"        -> <<5, 10>>
      [] category = "Vegetariano"  -> <<4, 8>>
      [] category = "Dessert"      -> <<5, 9>>
      [] category = "Burger"       -> <<4, 7>>
      [] OTHER                     -> <<5, 8>>

\* df[df['name'] == name]
RowsNamed(df, name) ==
    LET Named(r) == r.name = name IN Filter(df, Named)

\* a filter that looks for Seafood only
MeatOrSeafood_seafood_only(row) == "Seafood" \in row.tags

MeatOrSeafood(row) == row.tags \cap {"Meat", "Seafood"} # {}

\* match_scores[other_ing] = MatchValue, filled in row order over the rows that
\* mention the anchor: the last row for a name stays
MatchScore(df, anchor, name) ==
    LET Mentions(e) == e.A = anchor \/ e.B = anchor
        Other(e) == IF e.A = anchor THEN e.B ELSE e.A
        IsFor(e) == Other(e) = name
        rows == Filter(Filter(df, Mentions), IsFor)
    IN  IF rows = <<>> THEN 1 ELSE rows[Len(rows)].MatchValue

\* the tags read through the name `segment`
SegmentTags(seg) ==
    (IF "favourite_tags" \in DOMAIN seg THEN seg.favourite_tags ELSE {})
    \cup (IF "secondary_favourite_tags" \in DOMAIN seg
          THEN seg.secondary_favourite_tags ELSE {})

PoolRow(row, anchor_match, segment_score) ==
    [name |-> row.name, tags |-> row.tags, flavor_values |-> row.flavor_values,
     quality_costs |-> row.quality_costs, anchor_match |-> anchor_match,
     segment_score |-> segment_score,
     total_score |-> anchor_match * 2 + segment_score]

\* sort_values('total_score', ascending=False); rows of equal score keep their
\* order (the frames of the model are far below the size where the sort used
\* stops being an insertion sort)
SortByTotalScore(s) ==
    LET Insert(sorted, r) ==
            LET p == Cardinality({i \in DOMAIN sorted :
                                     sorted[i].total_score >= r.total_score})
            IN  SubSeq(sorted, 1, p) \o <<r>> \o SubSeq(sorted, p + 1, Len(sorted))
        F[i \in 0..Len(s)] == IF i = 0 THEN <<>> ELSE Insert(F[i - 1], s[i])
    IN  F[Len(s)]

\* The function has no parameter `segment`: lines 112-115 read the name from
\* the module's globals, and raise NameError when it is not bound there.
build_candidate_pool(template, anchor_row, df, mdf, global_segment) ==
    LET NotAnchor(r) == r.name # anchor_row.name
        Veg(r) == ~MeatOrSeafood(r)
        c0 == Filter(df, NotAnchor)
        c1 == IF AnyWord(template, {"veggies", "vegetable", "salad", "velvety"})
              THEN Filter(c0, Veg) ELSE c0
        c2 == IF template = "Veggie Burger" THEN Filter(c1, Veg) ELSE c1
    IN  IF global_segment = Unbound
        THEN [raised |-> "NameError", pool |-> <<>>]
        ELSE LET segment_tags == SegmentTags(global_segment)
                 scored == [i \in DOMAIN c2 |->
                              PoolRow(c2[i],
                                      MatchScore(mdf, anchor_row.name, c2[i].name),
                                      Cardinality(c2[i].tags \cap segment_tags))]
             IN  [raised |-> None, pool |-> SortByTotalScore(scored)]

\* first position of the list whose element satisfies P, 0 when none
FirstIndex(s, P(_)) ==
    IF \E i \in DOMAIN s : P(s[i])
    THEN CHOOSE i \in DOMAIN s : P(s[i]) /\ \A j \in 1..(i - 1) : ~P(s[j])
    ELSE 0

\* `ing in ing_data` and one of the tags is among the row's
Tagged(df, ing, ts) ==
    /\ RowsNamed(df, ing) # <<>>
    /\ RowsNamed(df, ing)[1].tags \cap ts # {}

\* One loop of role_assignment: the first name of the remaining ones with one
\* of the tags takes the role and leaves the list.  st is [roles, remaining].
TakeFirst(st, df, ts, role) ==
    LET Has(ing) == Tagged(df, ing, ts)
        i == FirstIndex(st.remaining, Has)
    IN  IF i = 0 THEN st
        ELSE [roles |-> Put(st.roles, st.remaining[i], role),
              remaining |-> Pop(st.remaining, i)]

\* lines 221-228
AssignBase(template, st, df) ==
    IF AnyWord(template, {"pasta", "rice", "risotto", "gnocchi", "lasagne"})
    THEN TakeFirst(st, df, {"Pasta", "Rice", "Carbs"}, "base")
    ELSE st

\* lines 249-258: the loop runs over a copy of the list and stops at the second
SeasoningTags == {"Herbs", "Spices", "Seasoning", "Condiment"}

AssignSeasonings(st, df) ==
    TakeFirst(TakeFirst(st, df, SeasoningTags, "seasoning"), df, SeasoningTags, "seasoning")

\* a return that leaves the remaining names without a role
AssignComplements_skipped(st) == st.roles

\* lines 261-262
AssignComplements(st) ==
    LET G[i \in 0..Len(st.remaining)] ==
            IF i = 0 THEN st.roles ELSE Put(G[i - 1], st.remaining[i], "complement")
    IN  G[Len(st.remaining)]

role_assignment(template, anchor, others, df) ==
    AssignComplements(
        AssignSeasonings(
            TakeFirst(
                TakeFirst(
                    AssignBase(template, [roles |-> anchor :> "hero", remaining |-> others],
                               df),
                    df, {"Oil", "Butter", "Fat"}, "fat"),
                df, {"Cheese"}, "cheese"),
            df))

calculate_flavor_profile(ingredients, df) ==
    LET Add(profile, ing) ==
            IF RowsNamed(df, ing) = <<>> THEN profile
            ELSE [a \in Axes |-> profile[a] + RowsNamed(df, ing)[1].flavor_values[a]]
        F[i \in 0..Len(ingredients)] ==
            IF i = 0 THEN [a \in Axes |-> 0] ELSE Add(F[i - 1], ingredients[i])
    IN  F[Len(ingredients)]

SumSeq(s) ==
    LET F[i \in 0..Len(s)] == IF i = 0 THEN 0 ELSE F[i - 1] + s[i]
    IN  F[Len(s)]

\* The weighted draws of lines 316-336: every list the loop can build.  A
\* position is drawn when random() * total_weight falls in its share, so every
\* position of positive weight can be, and position 0 also when the value is 0.
RECURSIVE Selections(_, _, _)
Selections(names, weights, k) ==
    IF k = 0 \/ names = <<>> THEN {<<>>}
    ELSE LET drawn == IF SumSeq(weights) <= 0 THEN {1}
                      ELSE {1} \cup {i \in DOMAIN weights : weights[i] > 0}
         IN  UNION {{<<names[i]>> \o rest :
                        rest \in Selections(Pop(names, i), Pop(weights, i), k - 1)} :
                    i \in drawn}

StyleTags(style) ==
    IF style = "fresco" THEN {"Acid", "Citrus", "Herbs", "Vegetables"}
    ELSE IF style = "umami" THEN {"Cheese", "Meat", "Mushroom", "Tomato", "Fat"}
    ELSE {}

\* the rows the draws are made from, for a drawn target_count
AvailableCandidates(candidate_pool, style, variant_index, needed_ingredients) ==
    LET InStyle(r) == r.tags \cap StyleTags(style) # {}
        filtered == Filter(candidate_pool, InStyle)
        style_candidates ==
            IF style \in {"fresco", "umami"}
            THEN (IF Len(filtered) < needed_ingredients \div 2
                  THEN candidate_pool ELSE filtered)
            ELSE candidate_pool
        start_idx == variant_index * 2
        window == Slice(style_candidates, start_idx, start_idx + needed_ingredients * 3)
    IN  IF Len(window) < needed_ingredients
        THEN Slice(candidate_pool, 0, needed_ingredients * 2)
        ELSE window

\* a variant whose list ends with the anchor instead of starting with it
BuildVariant_anchor_last(anchor_name, anchor_row, candidate_pool, template, mdf, style, selected_names) ==
    RecipeVariant(
        selected_names \o <<anchor_name>>,
        role_assignment(template, anchor_name, selected_names,
                        candidate_pool \o <<anchor_row>>),
        EmptyMap,
        calculate_flavor_profile(selected_names \o <<anchor_name>>,
                                 candidate_pool \o <<anchor_row>>),
        score_combo(selected_names \o <<anchor_name>>, mdf),
        count_triangles(selected_names \o <<anchor_name>>, mdf),
        [style |-> style, count |-> Len(selected_names) + 1,
         compatibility_avg |-> score_combo(selected_names \o <<anchor_name>>, mdf),
         triangles |-> count_triangles(selected_names \o <<anchor_name>>, mdf)],
        style)

\* The variant built from one outcome of the draws: target_count and the list
\* of drawn names.
BuildVariant(anchor_name, anchor_row, candidate_pool, template, mdf, style, selected_names) ==
    LET selected_ingredients == <<anchor_name>> \o selected_names
        with_anchor == candidate_pool \o <<anchor_row>>
        compatibility_avg == score_combo(selected_ingredients, mdf)
        triangles == count_triangles(selected_ingredients, mdf)
    IN  RecipeVariant(
            selected_ingredients,
            role_assignment(template, anchor_name, Tail(selected_ingredients), with_anchor),
            EmptyMap,
            calculate_flavor_profile(selected_ingredients, with_anchor),
            compatibility_avg,
            triangles,
            [style |-> style, count |-> Len(selected_ingredients),
             compatibility_avg |-> compatibility_avg, triangles |-> triangles],
            style)

\* a target count drawn from the whole range of the category
generate_single_variant_whole_range(anchor_name, anchor_row, candidate_pool, template, min_ing, max_ing, mdf, style, variant_index) ==
    UNION {
        LET needed_ingredients == target_count - 1
            available == AvailableCandidates(candidate_pool, style, variant_index,
                                             needed_ingredients)
            names == [i \in DOMAIN available |-> available[i].name]
            weights == [i \in DOMAIN available |-> available[i].total_score]
        IN  {BuildVariant(anchor_name, anchor_row, candidate_pool, template, mdf,
                          style, sel) :
                sel \in Selections(names, weights,
                                   Min(needed_ingredients, Len(names)))}
        : target_count \in min_ing..max_ing}

\* every variant _generate_single_variant can return
generate_single_variant(anchor_name, anchor_row, candidate_pool, template, min_ing, max_ing, mdf, style, variant_index) ==
    UNION {
        LET needed_ingredients == target_count - 1
            available == AvailableCandidates(candidate_pool, style, variant_index,
                                             needed_ingredients)
            names == [i \in DOMAIN available |-> available[i].name]
            weights == [i \in DOMAIN available |-> available[i].total_score]
        IN  {BuildVariant(anchor_name, anchor_row, candidate_pool, template, mdf,
                          style, sel) :
                sel \in Selections(names, weights,
                                   Min(needed_ingredients, Len(names)))}
        : target_count \in min_ing..Min(max_ing, min_ing + 4)}

(***************************************************************************)
(* The data the calls are made on.                                         *)
(***************************************************************************)
Cent == 100

Costs(normal, first_choice, gourmet) ==
    [NORMAL |-> normal * Cent, FIRST_CHOICE |-> first_choice * Cent,
     GOURMET |-> gourmet * Cent]

Flavor(sour, salt, acid, sweet, fat, umami) ==
    [SOUR |-> sour, SALT |-> salt, ACID |-> acid, SWEET |-> sweet, FAT |-> fat,
     UMAMI |-> umami]

Ingredient(name, tags, flavor_values, quality_costs) ==
    [name |-> name, tags |-> tags, flavor_values |-> flavor_values,
     quality_costs |-> quality_costs]

Salmon == Ingredient("Salmon", {"Seafood", "Premium"}, Flavor(1, 2, 0, 0, 4, 3), Costs(300, 500, 800))
Pasta == Ingredient("Pasta", {"Carbs", "Basic"}, Flavor(0, 1, 0, 1, 1, 1), Costs(50, 100, 200))
Tomato == Ingredient("Tomato", {"Vegetables", "Acid"}, Flavor(3, 0, 4, 2, 0, 2), Costs(80, 150, 250))
Butter == Ingredient("Butter", {"Fat"}, Flavor(0, 1, 0, 0, 4, 0), Costs(60, 120, 200))
Basil == Ingredient("Basil", {"Herbs"}, Flavor(0, 0, 1, 0, 0, 0), Costs(40, 70, 110))
Pepper == Ingredient("Pepper", {"Spices"}, Flavor(0, 0, 0, 0, 0, 1), Costs(30, 50, 90))
Capers == Ingredient("Capers", {"Condiment"}, Flavor(1, 3, 1, 0, 0, 0), Costs(70, 130, 210))
Parmesan == Ingredient("Parmesan", {"Cheese"}, Flavor(0, 3, 0, 0, 2, 4), Costs(150, 260, 420))

Lemon == Ingredient("Lemon", {"Acid"}, Flavor(4, 0, 4, 1, 0, 0), Costs(50, 99, 110))
Truffle == Ingredient("Truffle", {"Premium"}, Flavor(0, 0, 0, 0, 1, 4), Costs(250, 399, 600))

\* the third catalog is priced in odd cents and is only ever priced, never
\* generated from
Catalogs ==
    <<<<Salmon, Pasta, Tomato>>,
      <<Butter, Basil, Pepper, Capers, Parmesan>>,
      <<Lemon, Truffle>>>>

MatchLists ==
    <<<<Edge("Salmon", "Pasta", 2), Edge("Salmon", "Tomato", 3), Edge("Pasta", "Tomato", 3)>>,
      <<Edge("Basil", "Butter", 2), Edge("Pepper", "Basil", 3), Edge("Butter", "Pepper", 1)>>>>

\* a match list whose three pairs all have the highest value
StrongMatches ==
    <<Edge("Salmon", "Pasta", 3), Edge("Tomato", "Salmon", 3), Edge("Pasta", "Tomato", 3)>>

Section(cost_expectation) == [probability |-> 1, cost_expectation |-> cost_expectation * Cent]

\* the weights are kept in hundredths
Gourmet ==
    [name |-> "Gourmet", favourite_tags |-> {"Wine", "Seafood"},
     secondary_favourite_tags |-> {"Meat", "Dairy"},
     tag_score_weight |-> 100, price_score_weight |-> 0,
     evaluation_score_weight |-> 100,
     expectations |-> [Wine |-> 80, Seafood |-> 90],
     sections |-> [MainCourse |-> Section(2500), Appetizer |-> Section(1500)]]

\* a segment that gives only its name and one section
Walkin == [name |-> "Walk-in", sections |-> [MainCourse |-> Section(400)]]

Segments == {Gourmet, Walkin}
(***************************************************************************)
(* Python floats: IEEE 754 binary64, every operation rounded to nearest,   *)
(* ties to the even mantissa                                               *)
(***************************************************************************)
\* the number of mantissa bits of a float
MantissaBits == 53

\* num/den brought into [1, 2) by a power of two: num/den = (a/b) * 2^e
RECURSIVE Scale(_, _, _)
Scale(a, b, e) ==
    IF a < b THEN Scale(2 * a, b, e - 1)
    ELSE IF a >= 2 * b THEN Scale(a, 2 * b, e + 1)
    ELSE [a |-> a, b |-> b, e |-> e]

\* the first k binary digits of r/b, highest first, for r < 2b
RECURSIVE Digits(_, _, _)
Digits(r, b, k) ==
    IF k = 0 THEN <<>>
    ELSE IF r >= b THEN <<1>> \o Digits(2 * (r - b), b, k - 1)
    ELSE <<0>> \o Digits(2 * r, b, k - 1)

\* what is left of r/b after k binary digits, in halves of the last digit
RECURSIVE Rest(_, _, _)
Rest(r, b, k) ==
    IF k = 0 THEN r
    ELSE IF r >= b THEN Rest(2 * (r - b), b, k - 1)
    ELSE Rest(2 * r, b, k - 1)

\* a sequence back to front
Reverse(s) == [i \in 1..Len(s) |-> s[Len(s) + 1 - i]]

\* a sequence of binary digits, lowest first, plus one (not all digits 1)
RECURSIVE Inc(_)
Inc(m) == IF Head(m) = 0 THEN <<1>> \o Tail(m) ELSE <<0>> \o Inc(Tail(m))

\* a float is [m, e]: mantissa digits lowest first, the highest one 1 and
\* worth 2^e; the next float up
NextUp(x) ==
    IF \A i \in DOMAIN x.m : x.m[i] = 1
    THEN [m |-> [i \in DOMAIN x.m |-> IF i = Len(x.m) THEN 1 ELSE 0], e |-> x.e + 1]
    ELSE [m |-> Inc(x.m), e |-> x.e]

\* the float nearest to num/den (a float literal, or a float that round(x, 2)
\* returns), for num > 0 and den > 0
ToFloat(num, den) ==
    LET s == Scale(num, den, 0)
        down == [m |-> Reverse(Digits(s.a, s.b, MantissaBits)), e |-> s.e]
        rest == Rest(s.a, s.b, MantissaBits)
    IN  IF rest > s.b \/ (rest = s.b /\ down.m[1] = 1) THEN NextUp(down) ELSE down

\* a long product is worked in four limbs: the binary digits of one limb
LimbBits == (MantissaBits + 3) \div 4

\* the binary digits of a mantissa taken LimbBits at a time, lowest limb first
Limbs(m) ==
    LET Bit(i) == IF i \in DOMAIN m THEN m[i] ELSE 0
        Limb(j) ==
            LET S[i \in 0..LimbBits] ==
                    IF i = 0 THEN 0
                    ELSE S[i - 1] + Bit(LimbBits * j + i) * 2 ^ (i - 1)
            IN  S[LimbBits]
    IN  [j \in 0..((Len(m) + LimbBits - 1) \div LimbBits - 1) |-> Limb(j)]

\* the sums of the limb products of each weight, lowest first
Columns(xs, ys) ==
    LET Col(k) ==
            LET S[i \in ({-1} \cup DOMAIN xs)] ==
                    IF i = -1 THEN 0
                    ELSE S[i - 1] + (IF k - i \in DOMAIN ys THEN xs[i] * ys[k - i] ELSE 0)
            IN  S[Cardinality(DOMAIN xs) - 1]
    IN  [k \in 0..(Cardinality(DOMAIN xs) + Cardinality(DOMAIN ys) - 2) |-> Col(k)]

\* the carry out of each column, lowest first
Carries(cols) ==
    LET Carry[k \in ({-1} \cup DOMAIN cols)] ==
            IF k = -1 THEN 0 ELSE (cols[k] + Carry[k - 1]) \div 2 ^ LimbBits
    IN  [k \in DOMAIN cols |-> Carry[k]]

\* the binary digits of a long product, lowest first, 2n of them
ProductDigits(cols, carries, n) ==
    LET high == Cardinality(DOMAIN cols)
        Digit(k) ==
            IF k = high THEN carries[k - 1]
            ELSE (cols[k] + (IF k = 0 THEN 0 ELSE carries[k - 1])) % 2 ^ LimbBits
    IN  [k \in 1..(2 * n) |->
            (Digit((k - 1) \div LimbBits) \div 2 ^ ((k - 1) % LimbBits)) % 2]

\* a product of two mantissas rounded to the mantissa's length
RoundProduct(product, n, e) ==
    LET top == product[2 * n]
        dropped == n - 1 + top
        down == [m |-> SubSeq(product, dropped + 1, dropped + n), e |-> e + top]
        sticky == \E i \in 1..(dropped - 1) : product[i] = 1
    IN  IF product[dropped] = 1 /\ (sticky \/ down.m[1] = 1) THEN NextUp(down)
        ELSE down

\* x * y for two floats
FloatMul(x, y) ==
    LET cols == Columns(Limbs(x.m), Limbs(y.m))
    IN  RoundProduct(ProductDigits(cols, Carries(cols), MantissaBits),
                     MantissaBits, x.e + y.e)

\* x < y for two floats
FloatLess(x, y) ==
    \/ x.e < y.e
    \/ /\ x.e = y.e
       /\ \E i \in DOMAIN x.m :
              /\ x.m[i] < y.m[i]
              /\ \A j \in (i + 1)..Len(x.m) : x.m[j] = y.m[j]

\* cost < amount * factor, for two amounts of money held as floats and the
\* float literal factor = num/den. Amounts are whole cents and the
\* factors have two decimals, so two sides that differ at all differ by far
\* more than a rounding error: rounding decides the comparison only when
\* cost is exactly amount * num/den
LessThanTimes(cost, amount, num, den) ==
    IF cost * den # amount * num THEN cost * den < amount * num
    ELSE IF cost = 0 THEN FALSE
    ELSE FloatLess(ToFloat(cost, 100 * Cent),
                   FloatMul(ToFloat(amount, 100 * Cent), ToFloat(num, den)))

\* cost > amount * factor, likewise
MoreThanTimes(cost, amount, num, den) ==
    IF cost * den # amount * num THEN cost * den > amount * num
    ELSE IF cost = 0 THEN FALSE
    ELSE FloatLess(FloatMul(ToFloat(amount, 100 * Cent), ToFloat(num, den)),
                   ToFloat(cost, 100 * Cent))


(***************************************************************************)
(* logic/pricing.py                                                        *)
(***************************************************************************)
\* round(x, 2) on a value counted in units of 1/scale cent-hundredths: the
\* nearest multiple of m, a tie going to the even multiple
RoundHalfEven(x, m) ==
    LET q == x \div m
        r == x % m
    IN  IF 2 * r < m THEN q * m
        ELSE IF 2 * r > m THEN (q + 1) * m
        ELSE IF q % 2 = 0 THEN q * m ELSE (q + 1) * m

\* tiers.get(ing_name, 'NORMAL')
TierOf(tiers, ing_name) ==
    IF ing_name \in DOMAIN tiers THEN tiers[ing_name] ELSE "NORMAL"

\* TIER_COSTS.get(tier, 1.0), in halves
TierCostHalves(tier) ==
    CASE tier = "NORMAL" -> 2
      [] tier = "FIRST_CHOICE" -> 3
      [] tier = "GOURMET" -> 5
      [] OTHER -> 2

\* the unit cost estimate_cost adds for one row at one tier
UnitCost(row, tier) ==
    LET quality_costs == row.quality_costs IN
    IF tier \in DOMAIN quality_costs THEN quality_costs[tier]
    ELSE LET base_cost == IF "NORMAL" \in DOMAIN quality_costs
                          THEN quality_costs["NORMAL"] ELSE 100 * Cent
         IN  (base_cost * TierCostHalves(tier)) \div 2

estimate_cost(ingredients, tiers, df) ==
    LET Add(total, ing_name) ==
            IF RowsNamed(df, ing_name) = <<>> THEN total
            ELSE total + UnitCost(RowsNamed(df, ing_name)[1], TierOf(tiers, ing_name))
        F[i \in 0..Len(ingredients)] ==
            IF i = 0 THEN 0 ELSE Add(F[i - 1], ingredients[i])
    IN  RoundHalfEven(F[Len(ingredients)], Cent)

RoleOf(roles, ing) == IF ing \in DOMAIN roles THEN roles[ing] ELSE ""

\* the names of a list whose role is in rs, in list order
WithRole(ingredients, roles, rs) ==
    LET Has(ing) == RoleOf(roles, ing) \in rs IN Filter(ingredients, Has)

\* an order that walks the list as it stands, whatever the roles
UpgradePriority_list_order(ingredients, roles) == ingredients

UpgradePriority(ingredients, roles) ==
    <<ingredients[1]>>
    \o WithRole(Tail(ingredients), roles, {"fat", "cheese", "base"})
    \o WithRole(Tail(ingredients), roles, {"complement"})
    \o WithRole(Tail(ingredients), roles, {"seasoning"})

DowngradePriority(ingredients, roles) ==
    WithRole(Tail(ingredients), roles, {"seasoning"})
    \o WithRole(Tail(ingredients), roles, {"complement"})
    \o WithRole(Tail(ingredients), roles, {"fat", "cheese", "base"})
    \o <<ingredients[1]>>

\* one turn of the loop of _upgrade_tiers (lines 128-160) for ing
UpgradeStep(ingredients, tiers, target_cost, df, ing) ==
    IF RowsNamed(df, ing) = <<>> THEN tiers
    ELSE IF tiers[ing] = "NORMAL" THEN
        LET first == Put(tiers, ing, "FIRST_CHOICE")
            test_cost == estimate_cost(ingredients, first, df)
            gourmet == Put(tiers, ing, "GOURMET")
            gourmet_cost == estimate_cost(ingredients, gourmet, df)
        IN  IF ~MoreThanTimes(test_cost, target_cost, 105, 100)
            THEN (IF LessThanTimes(test_cost, target_cost, 9, 10)
                     /\ ~MoreThanTimes(gourmet_cost, target_cost, 105, 100)
                  THEN gourmet ELSE first)
            ELSE tiers
    ELSE IF tiers[ing] = "FIRST_CHOICE" THEN
        LET gourmet == Put(tiers, ing, "GOURMET")
            test_cost == estimate_cost(ingredients, gourmet, df)
        IN  IF ~MoreThanTimes(test_cost, target_cost, 105, 100) THEN gourmet ELSE tiers
    ELSE tiers

upgrade_tiers(ingredients, roles, current_tiers, target_cost, df) ==
    LET order == UpgradePriority(ingredients, roles)
        F[i \in 0..Len(order)] ==
            IF i = 0 THEN current_tiers
            ELSE UpgradeStep(ingredients, F[i - 1], target_cost, df, order[i])
    IN  <<F[Len(order)], estimate_cost(ingredients, F[Len(order)], df)>>

\* one turn of the loop of _downgrade_tiers (lines 201-227) for ing, on the
\* loop's [tiers, current_cost]; the loop is left at the first turn that finds
\* current_cost within 110% of the target, after which no turn changes anything
DowngradeStep(ingredients, st, target_cost, df, ing) ==
    IF ~MoreThanTimes(st.current_cost, target_cost, 11, 10) THEN st
    ELSE IF RowsNamed(df, ing) = <<>> THEN st
    ELSE IF st.tiers[ing] = "GOURMET" THEN
        LET test_tiers == Put(st.tiers, ing, "FIRST_CHOICE")
            test_cost == estimate_cost(ingredients, test_tiers, df)
        IN  IF ~LessThanTimes(test_cost, target_cost, 8, 10)
            THEN [tiers |-> test_tiers, current_cost |-> test_cost] ELSE st
    ELSE IF st.tiers[ing] = "FIRST_CHOICE" THEN
        LET test_tiers == Put(st.tiers, ing, "NORMAL")
            test_cost == estimate_cost(ingredients, test_tiers, df)
        IN  IF ~LessThanTimes(test_cost, target_cost, 7, 10)
            THEN [tiers |-> test_tiers, current_cost |-> test_cost] ELSE st
    ELSE st

downgrade_tiers(ingredients, roles, current_tiers, target_cost, df) ==
    LET order == DowngradePriority(ingredients, roles)
        F[i \in 0..Len(order)] ==
            IF i = 0
            THEN [tiers |-> current_tiers,
                  current_cost |-> estimate_cost(ingredients, current_tiers, df)]
            ELSE DowngradeStep(ingredients, F[i - 1], target_cost, df, order[i])
    IN  <<F[Len(order)].tiers, estimate_cost(ingredients, F[Len(order)].tiers, df)>>

\* a start from the tiers stored on the variant
StartTiers_from_stored(variant) ==
    [ing \in Range(variant.ingredients) |->
        IF ing \in DOMAIN variant.tiers THEN variant.tiers[ing] ELSE "NORMAL"]

\* current_tiers = {ing: 'NORMAL' for ing in ingredients}
StartTiers(variant) == [ing \in Range(variant.ingredients) |-> "NORMAL"]

\* a price that takes the lower of the two amounts
SuggestedPrice_lower(current_cost, cost_expectation) ==
    IF 100 * Abs(current_cost - cost_expectation) <= 15 * cost_expectation
    THEN RoundHalfEven(cost_expectation, Cent)
    ELSE RoundHalfEven(Min(110 * current_cost, 85 * cost_expectation), 100 * Cent)
         \div 100

\* lines 86-92: the suggested price for a final cost
SuggestedPrice(current_cost, cost_expectation) ==
    IF 100 * Abs(current_cost - cost_expectation) <= 15 * cost_expectation
    THEN RoundHalfEven(cost_expectation, Cent)
    ELSE RoundHalfEven(Max(110 * current_cost, 85 * cost_expectation), 100 * Cent)
         \div 100

target_based_tiering(variant, df, cost_expectation) ==
    LET ingredients == variant.ingredients
        roles == variant.roles
        current_tiers == StartTiers(variant)
        current_cost == estimate_cost(ingredients, current_tiers, df)
        adjusted ==
            IF LessThanTimes(current_cost, cost_expectation, 8, 10)
            THEN upgrade_tiers(ingredients, roles, current_tiers, cost_expectation, df)
            ELSE IF MoreThanTimes(current_cost, cost_expectation, 12, 10)
            THEN downgrade_tiers(ingredients, roles, current_tiers, cost_expectation, df)
            ELSE <<current_tiers, current_cost>>
    IN  [tiers |-> adjusted[1], cost |-> adjusted[2],
         price |-> SuggestedPrice(adjusted[2], cost_expectation)]

(***************************************************************************)
(* logic/rating.py.  A score is kept exact, as a fraction num / den with   *)
(* den > 0.                                                                *)
(***************************************************************************)
RECURSIVE GCD(_, _)
GCD(a, b) == IF b = 0 THEN a ELSE GCD(b, a % b)

Norm(f) ==
    LET g == GCD(Abs(f.num), f.den) IN Frac(f.num \div g, f.den \div g)

Whole(n) == Frac(n, 1)
FAdd(a, b) == Norm(Frac(a.num * b.den + b.num * a.den, a.den * b.den))
FLe(a, b) == a.num * b.den <= b.num * a.den
FMin(a, b) == IF FLe(a, b) THEN a ELSE b
FMax(a, b) == IF FLe(a, b) THEN b ELSE a

\* round(x, 1): the nearest tenth
Round1(f) == Norm(Frac(RoundHalfEven(10 * f.num, f.den) \div f.den, 10))

\* the entries of a dict, as a bag of values: how many keys hold v
CountValue(m, v) == Cardinality({k \in DOMAIN m : m[k] = v})

is_balanced_recipe(flavor_profile) ==
    LET active == {a \in DOMAIN flavor_profile : flavor_profile[a] > 0}
        n == Cardinality(active)
        Below(v) == Cardinality({a \in active : flavor_profile[a] < v})
        UpTo(v) == Cardinality({a \in active : flavor_profile[a] <= v})
        \* sorted(values)[len(values) // 2]
        median_val == CHOOSE v \in {flavor_profile[a] : a \in active} :
                          Below(v) <= n \div 2 /\ n \div 2 < UpTo(v)
        max_val == CHOOSE v \in {flavor_profile[a] : a \in active} :
                          \A a \in active : flavor_profile[a] <= v
    IN  IF DOMAIN flavor_profile = {} THEN FALSE
        ELSE IF n < 3 THEN FALSE
        ELSE IF median_val <= 0 THEN FALSE
        ELSE IF 2 * max_val > 5 * median_val THEN FALSE
        ELSE TRUE

\* how many names of the list have a row carrying one of the tags
CountTagged(ingredients, df, ts) ==
    Cardinality({i \in DOMAIN ingredients :
                    /\ RowsNamed(df, ingredients[i]) # <<>>
                    /\ RowsNamed(df, ingredients[i])[1].tags \cap ts # {}})

calculate_cheese_bonus(variant, df) ==
    IF CountTagged(variant.ingredients, df, {"Cheese"}) = 0 THEN 0
    ELSE IF variant.style \in {"classico", "umami"} THEN 4 ELSE 2

calculate_veggie_bonus(ingredients, df) ==
    LET veggie_count == CountTagged(ingredients, df,
                            {"Vegetables", "Herbs", "Legumes", "Salad", "Tomato"})
        total_count == Len(ingredients)
    IN  IF total_count = 0 THEN 0
        ELSE IF 10 * veggie_count >= 3 * total_count THEN 5
        ELSE IF 10 * veggie_count >= 2 * total_count THEN 3
        ELSE 0

calculate_aroma_bonus(ingredients, df) ==
    LET aroma_count == CountTagged(ingredients, df,
                           {"Herbs", "Spices", "Garlic", "Onion", "Citrus", "Wine"})
    IN  IF aroma_count >= 4 THEN 7 ELSE IF aroma_count >= 3 THEN 5 ELSE 0

\* <<the set of active perks, the bonus>>
compute_perks(variant, df) ==
    LET balanced == is_balanced_recipe(variant.flavor_profile)
        cheese == calculate_cheese_bonus(variant, df)
        veggie == calculate_veggie_bonus(variant.ingredients, df)
        aroma == calculate_aroma_bonus(variant.ingredients, df)
        total_bonus == (IF balanced THEN 6 ELSE 0) + cheese + veggie + aroma
    IN  <<(IF balanced THEN {"BalancedRecipe"} ELSE {})
          \cup (IF cheese > 0 THEN {"SayCheese"} ELSE {})
          \cup (IF veggie > 0 THEN {"VeggiesPower"} ELSE {})
          \cup (IF aroma > 0 THEN {"ComplexAroma"} ELSE {}),
          Whole(Min(total_bonus, 30))>>

quality_bonus_uncapped(tiers, cap) ==
    Norm(Frac(7 * CountValue(tiers, "FIRST_CHOICE") + 14 * CountValue(tiers, "GOURMET"), 10))

\* QUALITY_UNIT, in tenths; cap in whole points
quality_bonus(tiers, cap) ==
    FMin(Frac(7 * CountValue(tiers, "FIRST_CHOICE") + 14 * CountValue(tiers, "GOURMET"), 10),
         Whole(cap))

\* avg_mv is a fraction; ((avg_mv - 1) / 2) * 15 + min(triangles, 3), floored at 0
compatibility_bonus(avg_mv, triangles) ==
    LET mv_bonus == Frac(15 * (avg_mv.num - avg_mv.den), 2 * avg_mv.den)
    IN  FMax(Whole(0), FAdd(mv_bonus, Whole(Min(triangles, 3))))

IdealRange(template_category) ==
    CASE template_category = "Pasta & Riso" -> <<8, 10>>
      [] template_category = "Carne"        -> <<6, 8>>
      [] template_category = "Pesce"        -> <<6, 8>>
      [] template_category = "Vegetariano"  -> <<5, 7>>
      [] template_category = "Dessert"      -> <<6, 8>>
      [] template_category = "Burger"       -> <<5, 6>>
      [] OTHER                              -> <<6, 8>>

complexity_tuning(count_ing, template_category, is_gourmet) ==
    LET ideal == IdealRange(template_category)
        \* twice the deviation from the centre (ideal_min + ideal_max) / 2
        deviation2 == Abs(2 * count_ing - (ideal[1] + ideal[2]))
        complexity_score == IF deviation2 <= 2 THEN 2
                            ELSE IF deviation2 <= 4 THEN 0
                            ELSE IF deviation2 <= 6 THEN -2
                            ELSE -5
    IN  Whole(complexity_score + (IF is_gourmet THEN 1 ELSE 0))

\* a rating that is not clamped
ClampStars_unclamped(stars) == stars

\* max(1.0, min(5.0, stars))
ClampStars(stars) == FMax(Whole(1), FMin(Whole(5), stars))

final_stars(evaluation_base, perk, quality, compat, complexity, divisor) ==
    LET total_score == FAdd(FAdd(FAdd(FAdd(evaluation_base, perk), quality), compat),
                            complexity)
    IN  ClampStars(Norm(Frac(total_score.num, total_score.den * divisor)))

get_rating_breakdown(variant, tiers, template_category, df, is_gourmet) ==
    LET evaluation_base == Whole(10)
        perks == compute_perks(variant, df)
        quality_bonus_val == quality_bonus(tiers, 20)
        compat_bonus == compatibility_bonus(variant.compatibility_avg, variant.triangles)
        complexity_adj == complexity_tuning(Len(variant.ingredients), template_category,
                                            is_gourmet)
        total_score == FAdd(FAdd(FAdd(FAdd(evaluation_base, perks[2]), quality_bonus_val),
                                 compat_bonus), complexity_adj)
    IN  [evaluation_base |-> Round1(evaluation_base),
         perk_bonus |-> Round1(perks[2]),
         quality_bonus |-> Round1(quality_bonus_val),
         compatibility_bonus |-> Round1(compat_bonus),
         complexity_tuning |-> Round1(complexity_adj),
         total_score |-> Round1(total_score),
         stars |-> Round1(final_stars(evaluation_base, perks[2], quality_bonus_val,
                                      compat_bonus, complexity_adj, 20)),
         active_perks |-> perks[1]]

FMul(a, b) == Norm(Frac(a.num * b.num, a.den * b.den))
FSub(a, b) == FAdd(a, Frac(-b.num, b.den))

\* a weight or multiplier of the data, given in hundredths
Hundredths(n) == Norm(Frac(n, 100))

\* dict.get(key, default)
Get(m, key, default) == IF key \in DOMAIN m THEN m[key] ELSE default

\* section.lower() for the section names of the data
SectionLower ==
    ("MainCourse" :> "maincourse") @@ ("Appetizer" :> "appetizer")
    @@ ("Dessert" :> "dessert")

\* domain_utils.get_customer_section_info
get_customer_section_info(customer, section) ==
    LET sections_data == Get(customer, "sections", EmptyMap)
        menu_section_info == Get(customer, "menu_section_info", EmptyMap)
    IN  IF section \in DOMAIN sections_data THEN sections_data[section]
        ELSE IF SectionLower[section] \in DOMAIN sections_data
            THEN sections_data[SectionLower[section]]
        ELSE IF section \in DOMAIN menu_section_info THEN menu_section_info[section]
        ELSE [probability |-> 1, cost_expectation |-> 1000 * Cent]

\* a fit that restarts from 80 beyond the 15% breakpoint
calculate_price_fit_jump(suggested_price, cost_expectation) ==
    IF cost_expectation <= 0 THEN Whole(50)
    ELSE LET deviation_pct == Norm(Frac(Abs(suggested_price - cost_expectation),
                                        cost_expectation))
         IN  IF FLe(deviation_pct, Hundredths(5)) THEN Whole(100)
             ELSE IF FLe(deviation_pct, Hundredths(15))
                 THEN FSub(Whole(100),
                           FMul(FSub(deviation_pct, Hundredths(5)), Whole(300)))
             ELSE FMax(Whole(20),
                       FSub(Whole(80),
                            FMul(FSub(deviation_pct, Hundredths(15)), Whole(100))))

\* percentages are fractions; prices are money
calculate_price_fit(suggested_price, cost_expectation) ==
    IF cost_expectation <= 0 THEN Whole(50)
    ELSE LET deviation_pct == Norm(Frac(Abs(suggested_price - cost_expectation),
                                        cost_expectation))
         IN  IF FLe(deviation_pct, Hundredths(5)) THEN Whole(100)
             ELSE IF FLe(deviation_pct, Hundredths(15))
                 THEN FSub(Whole(100),
                           FMul(FSub(deviation_pct, Hundredths(5)), Whole(300)))
             ELSE FMax(Whole(20),
                       FSub(Whole(70),
                            FMul(FSub(deviation_pct, Hundredths(15)), Whole(100))))

\* the tags of the rows of the variant's ingredients
RecipeTags(variant, df) ==
    UNION {RowsNamed(df, variant.ingredients[i])[1].tags :
              i \in {j \in DOMAIN variant.ingredients :
                        RowsNamed(df, variant.ingredients[j]) # <<>>}}

RECURSIVE SumOver(_, _)
SumOver(S, f) ==
    IF S = {} THEN Whole(0)
    ELSE LET x == CHOOSE y \in S : TRUE
         IN  FAdd(f[x], SumOver(S \ {x}, f))

\* a fit that counts a segment without preferences as not covered at all
calculate_tag_fit_uncovered(segment, variant, df) ==
    LET wanted == Get(segment, "favourite_tags", {})
                  \cup Get(segment, "secondary_favourite_tags", {})
                  \cup DOMAIN Get(segment, "expectations", EmptyMap)
    IN  IF wanted \cap RecipeTags(variant, df) = {} THEN Whole(0) ELSE Whole(100)

calculate_tag_fit(segment, variant, df) ==
    LET favourite_tags == Get(segment, "favourite_tags", {})
        secondary_tags == Get(segment, "secondary_favourite_tags", {})
        expectations == Get(segment, "expectations", EmptyMap)
        recipe_tags == RecipeTags(variant, df)
        fav_score == IF favourite_tags = {} THEN Whole(0)
                     ELSE Norm(Frac(3 * Cardinality(favourite_tags \cap recipe_tags),
                                    Cardinality(favourite_tags)))
        sec_score == IF secondary_tags = {} THEN Whole(0)
                     ELSE Norm(Frac(2 * Cardinality(secondary_tags \cap recipe_tags),
                                    Cardinality(secondary_tags)))
        capped == [tag \in DOMAIN expectations |->
                      FMin(Hundredths(expectations[tag]), Whole(1))]
        exp_score == IF DOMAIN expectations = {} THEN Whole(0)
                     ELSE FMin(SumOver(DOMAIN expectations \cap recipe_tags, capped),
                               Whole(2))
        total_score == FAdd(FAdd(fav_score, sec_score), exp_score)
        max_possible == (IF favourite_tags = {} THEN 0 ELSE 3)
                        + (IF secondary_tags = {} THEN 0 ELSE 2)
                        + (IF DOMAIN expectations = {} THEN 0 ELSE 2)
    IN  IF max_possible > 0
        THEN FMul(FMul(total_score, Frac(1, max_possible)), Whole(100))
        ELSE Whole(50)

\* weights that are used as the segment gives them
FitWeights_raw(segment) ==
    [price |-> Hundredths(Get(segment, "price_score_weight", 33)),
     tag |-> Hundredths(Get(segment, "tag_score_weight", 33)),
     eval |-> Hundredths(Get(segment, "evaluation_score_weight", 33))]

\* the three weights segment_fit combines the fits with (lines 150-159)
FitWeights(segment) ==
    LET price_weight == Hundredths(Get(segment, "price_score_weight", 33))
        tag_weight == Hundredths(Get(segment, "tag_score_weight", 33))
        eval_weight == Hundredths(Get(segment, "evaluation_score_weight", 33))
        total_weight == FAdd(FAdd(price_weight, tag_weight), eval_weight)
        Over(w) == Norm(Frac(w.num * total_weight.den, w.den * total_weight.num))
    IN  IF total_weight.num > 0
        THEN [price |-> Over(price_weight), tag |-> Over(tag_weight),
              eval |-> Over(eval_weight)]
        ELSE [price |-> price_weight, tag |-> tag_weight, eval |-> eval_weight]

segment_fit(stars, segment, section, suggested_price, variant, df) ==
    LET w == FitWeights(segment)
        cost_expectation == get_customer_section_info(segment, section).cost_expectation
        price_fit == calculate_price_fit(suggested_price, cost_expectation)
        tag_fit == calculate_tag_fit(segment, variant, df)
        eval_fit == FMul(stars, Whole(20))
        total_fit == FAdd(FAdd(FMul(price_fit, w.price), FMul(tag_fit, w.tag)),
                          FMul(eval_fit, w.eval))
    IN  [price_fit |-> Round1(price_fit), tag_fit |-> Round1(tag_fit),
         eval_fit |-> Round1(eval_fit), total_fit |-> Round1(total_fit)]

(***************************************************************************)
(* The calls.  generate_variants runs in steps (call.pc), so that what has  *)
(* been built when it raises is part of the state; every other call is one  *)
(* step.                                                                    *)
(***************************************************************************)
\* candidate_pool is <<>> while the local is not bound and <<pool>> once it is
Idle ==
    [pc |-> "idle", segment |-> None, section |-> None, template |-> None,
     anchor_name |-> None, n_variants |-> 0, anchor_row |-> NoIngredient,
     candidate_pool |-> <<>>, variants |-> <<>>]

NoCall == [fn |-> "none", args |-> <<>>, raised |-> None, value |-> None]

Returned(fn, args, value) == [fn |-> fn, args |-> args, raised |-> None, value |-> value]

\* an exception leaving generate_variants, with what the call had built by then
Raised(c, exception) ==
    [fn |-> "generate_variants",
     args |-> <<c.segment, c.section, c.template, c.anchor_name, c.n_variants>>,
     raised |-> exception,
     value |-> [candidate_pool |-> c.candidate_pool, variants |-> c.variants]]

MaxRequested == 4

GenTemplates == {"Grilled Fish", "Pasta", "Salad", "Veggie Burger", "Sushi"}
AnchorNames == {"Salmon", "Pasta", "Tomato", "Ghost"}
Sections == {"MainCourse"}

\* the templates build_candidate_pool keeps Meat and Seafood out of
MeatlessTemplates ==
    {t \in DOMAIN TEMPLATES_CATALOG : TEMPLATES_CATALOG[t].category = "Vegetariano"}
        \cup {"Veggie Burger"}

\* the requests made: <<template, anchor_name, n_variants>>
Requests ==
    (GenTemplates \X AnchorNames \X (0..MaxRequested))
        \cup ({"Salad", "Pasta"} \X {"Basil"} \X {1})
        \cup (MeatlessTemplates \X AnchorNames \X {3})

\* app.py:646: the button handler calls generate_variants(...)
CallGenerateVariants(segment, section, template, anchor_name, n_variants) ==
    /\ call.pc = "idle"
    /\ last = NoCall
    /\ call' = [Idle EXCEPT !.pc = "find", !.segment = segment, !.section = section,
                            !.template = template, !.anchor_name = anchor_name,
                            !.n_variants = n_variants]
    /\ UNCHANGED <<ingredients_df, matches_df, generator_segment, variants, last, menu_items, tier_dicts>>

\* generator.py:34-38
FindAnchor ==
    /\ call.pc = "find"
    /\ LET anchor_rows == RowsNamed(ingredients_df, call.anchor_name) IN
       \/ /\ anchor_rows = <<>>
          /\ last' = Raised(call, "ValueError: anchor not found")
          /\ call' = Idle
       \/ /\ anchor_rows # <<>>
          /\ call' = [call EXCEPT !.pc = "validate", !.anchor_row = anchor_rows[1]]
          /\ last' = last
    /\ UNCHANGED <<ingredients_df, matches_df, generator_segment, variants, menu_items, tier_dicts>>

\* a handler that stores what the call had built when it raised
ValidateTemplate_storing ==
    /\ call.pc = "validate"
    /\ LET verdict == check_template_compatibility(call.template, call.anchor_row) IN
       \/ /\ ~verdict.is_compatible /\ verdict.mark = "cross"
          /\ last' = Raised(call, "ValueError: template incompatible")
          /\ call' = Idle
          /\ variants' = call.variants
       \/ /\ ~(~verdict.is_compatible /\ verdict.mark = "cross")
          /\ call' = [call EXCEPT !.pc = "pool"]
          /\ last' = last
          /\ variants' = variants
    /\ UNCHANGED <<ingredients_df, matches_df, generator_segment, menu_items, tier_dicts>>

\* generator.py:41-44
ValidateTemplate ==
    /\ call.pc = "validate"
    /\ LET verdict == check_template_compatibility(call.template, call.anchor_row) IN
       \/ /\ ~verdict.is_compatible /\ verdict.mark = "cross"
          /\ last' = Raised(call, "ValueError: template incompatible")
          /\ call' = Idle
       \/ /\ ~(~verdict.is_compatible /\ verdict.mark = "cross")
          /\ call' = [call EXCEPT !.pc = "pool"]
          /\ last' = last
    /\ UNCHANGED <<ingredients_df, matches_df, generator_segment, variants, menu_items, tier_dicts>>

\* generator.py:47-54
BuildCandidatePool ==
    /\ call.pc = "pool"
    /\ LET built == build_candidate_pool(call.template, call.anchor_row, ingredients_df,
                                         matches_df, generator_segment) IN
       \/ /\ built.raised # None
          /\ last' = Raised(call, built.raised)
          /\ call' = Idle
       \/ /\ built.raised = None
          /\ call' = [call EXCEPT !.pc = "loop", !.candidate_pool = <<built.pool>>]
          /\ last' = last
    /\ UNCHANGED <<ingredients_df, matches_df, generator_segment, variants, menu_items, tier_dicts>>

\* the style of the i-th turn (0-based) of the loop of generator.py:56-57
StyleOfTurn(i) == IF i < Len(Styles) THEN Styles[i + 1] ELSE "classico"

\* a loop that makes as many turns as were asked
Turns_uncapped(n_variants) == n_variants

\* how many turns the loop makes
Turns(n_variants) == Min(n_variants, 3)

\* generator.py:56-63: one turn of the loop
GenerateSingleVariant ==
    /\ call.pc = "loop"
    /\ Len(call.variants) < Turns(call.n_variants)
    /\ LET i == Len(call.variants)
           range == get_ingredient_range(get_template_category(call.template))
       IN  \E variant \in generate_single_variant(
                              call.anchor_name, call.anchor_row, call.candidate_pool[1],
                              call.template, range[1], range[2], matches_df,
                              StyleOfTurn(i), i) :
               call' = [call EXCEPT !.variants = Append(@, variant)]
    /\ UNCHANGED <<ingredients_df, matches_df, generator_segment, variants, last, menu_items, tier_dicts>>

\* generator.py:65 and app.py:657
ReturnVariants ==
    /\ call.pc = "loop"
    /\ Len(call.variants) >= Turns(call.n_variants)
    /\ variants' = call.variants
    /\ last' = Returned("generate_variants",
                        <<call.segment, call.section, call.template, call.anchor_name,
                          call.n_variants>>,
                        call.variants)
    /\ call' = Idle
    /\ UNCHANGED <<ingredients_df, matches_df, generator_segment, menu_items, tier_dicts>>

\* 'gourmet' in segment_name.lower(), for the segment names of the data
NameHasGourmet(segment_name) == segment_name \in {"Gourmet"}

\* domain_utils.is_gourmet_segment
is_gourmet_segment(segment_name, segment_data) ==
    IF NameHasGourmet(segment_name) THEN TRUE
    ELSE /\ Get(segment_data, "evaluation_score_weight", 50) >= 80
         /\ Get(segment_data, "tag_score_weight", 50) >= 70
         /\ Get(segment_data, "price_score_weight", 50) <= 30

\* app.py:697-700: the fit of the priced and rated variant
CardFit(stored, pricing, rating_breakdown, customer, section, df) ==
    [variant |-> stored, pricing |-> pricing, rating |-> rating_breakdown,
     fit |-> segment_fit(rating_breakdown.stars, customer, section, pricing.price,
                         stored, df)]

\* app.py:689-694: the tiers are stored on the variant, which is then rated
CardRating(variant, pricing, customer, section, template_name, df) ==
    CardFit([variant EXCEPT !.tiers = pricing.tiers], pricing,
            get_rating_breakdown([variant EXCEPT !.tiers = pricing.tiers], pricing.tiers,
                                 get_template_category(template_name), df,
                                 is_gourmet_segment(customer.name, customer)),
            customer, section, df)

\* what render_variant_card computes for one variant (app.py:683-700)
Card(variant, customer, section, template_name, df) ==
    CardRating(variant,
               target_based_tiering(
                   variant, df,
                   get_customer_section_info(customer, section).cost_expectation),
               customer, section, template_name, df)

\* what a rendered card leaves: the tiers on the held variant (app.py:689)
ShowCard(i, card, customer, section, template_name) ==
    /\ variants' = [variants EXCEPT ![i] = card.variant]
    /\ last' = Returned("render_variant_card", <<customer, section, template_name, i>>,
                        [pricing |-> card.pricing, rating |-> card.rating,
                         fit |-> card.fit])

\* app.py:662-670 and 673-700: the cards are rendered in the order of the list,
\* and again from the first on the next run of the script, for the segment,
\* section and template of the request
RenderVariantCard(i) ==
    /\ call.pc = "idle"
    /\ i \in DOMAIN variants
    /\ last.raised = None
    /\ \/ last.fn = "generate_variants" /\ i = 1
       \/ last.fn = "render_variant_card" /\ i = (last.args[4] % Len(variants)) + 1
    /\ ShowCard(i, Card(variants[i], last.args[1], last.args[2], last.args[3],
                        ingredients_df),
                last.args[1], last.args[2], last.args[3])
    /\ UNCHANGED <<ingredients_df, matches_df, generator_segment, call, menu_items, tier_dicts>>

\* the ingredient catalog and the match list loaded together
Bacon == Ingredient("Bacon", {"Meat", "Fat"}, Flavor(0, 3, 0, 0, 3, 3), Costs(120, 200, 320))

\* a catalog with a Meat row among the candidates
MeatCatalog == <<Bacon, Tomato, Pasta>>

Datasets ==
    {<<Catalogs[1], MatchLists[1]>>, <<Catalogs[2], MatchLists[2]>>,
     <<Catalogs[1], StrongMatches>>}

GeneratorDatasets == Datasets \cup {<<MeatCatalog, MatchLists[1]>>}

Init ==
    /\ \E dataset \in GeneratorDatasets :
          ingredients_df = dataset[1] /\ matches_df = dataset[2]
    /\ generator_segment \in {Unbound} \cup Segments
    /\ call = Idle
    /\ variants = <<>>
    /\ last = NoCall
    /\ menu_items = <<>>
    /\ tier_dicts = <<>>

Next ==
    \/ \E segment \in Segments, section \in Sections, request \in Requests :
          CallGenerateVariants(segment, section, request[1], request[2], request[3])
    \/ FindAnchor
    \/ ValidateTemplate
    \/ BuildCandidatePool
    \/ GenerateSingleVariant
    \/ ReturnVariants
    \/ \E i \in 1..3 : RenderVariantCard(i)

Spec == Init /\ [][Next]_vars

(***************************************************************************)
(* domain_utils.py: the match lookup and the averages                       *)
(***************************************************************************)
\* x[0].lower() of the sort key, as a rank: the order of the lower-cased names
\* of the match lists below
LowerRank(name) ==
    CASE name = "" -> 0
      [] name = "A" -> 1
      [] name = "B" -> 2
      [] name = "C" -> 3
      [] name = "D" -> 4
      [] OTHER -> 5

\* partners.sort(key=lambda x: (-x[1], x[0].lower())): the sort keeps the
\* order of appending between entries of equal key
SortPartners(partners) ==
    LET Before(x, y) == \/ x[2] > y[2]
                        \/ x[2] = y[2] /\ LowerRank(x[1]) <= LowerRank(y[1])
        Insert(sorted, x) ==
            LET p == Cardinality({i \in DOMAIN sorted : Before(sorted[i], x)})
            IN  SubSeq(sorted, 1, p) \o <<x>> \o SubSeq(sorted, p + 1, Len(sorted))
        F[i \in 0..Len(partners)] ==
            IF i = 0 THEN <<>> ELSE Insert(F[i - 1], partners[i])
    IN  F[Len(partners)]

\* lookup[name].append(entry), the list being created when the key is new
AppendPartner(lookup, name, entry) ==
    Put(lookup, name, (IF name \in DOMAIN lookup THEN lookup[name] ELSE <<>>) \o <<entry>>)

\* one turn of the loop of lines 33-46
AddMatch(lookup, match) ==
    IF match.A # "" /\ match.B # ""
    THEN AppendPartner(AppendPartner(lookup, match.A, <<match.B, match.MatchValue>>),
                       match.B, <<match.A, match.MatchValue>>)
    ELSE lookup

build_matches_lookup(matches) ==
    LET F[i \in 0..Len(matches)] ==
            IF i = 0 THEN EmptyMap ELSE AddMatch(F[i - 1], matches[i])
    IN  [ingredient \in DOMAIN F[Len(matches)] |->
            SortPartners(F[Len(matches)][ingredient])]

\* <<round(avg_mv, 2), triangles>>; the triple loop of lines 286-309 is the one
\* of _count_triangles
avg_matchvalue(ingredients, df) ==
    IF Len(ingredients) < 2 THEN <<Frac(1, 1), 0>>
    ELSE LET total == PairSumFrom(ingredients, df, 1, 2)
             pairs == Max(PairCount(ingredients), 1)
         IN  <<Frac(RoundHalfEven(100 * total, pairs) \div pairs, 100),
               IF Len(ingredients) >= 3 THEN TrianglesFrom(ingredients, df, 1, 2, 3)
               ELSE 0>>

\* the match lists the lookups are made on
MaxEdges == 2
MatchValues == {1, 2, 3}
EdgePairs ==
    {<<"A", "B">>, <<"B", "A">>, <<"A", "C">>, <<"C", "B">>, <<"", "A">>}
Edges == {Edge(p[1], p[2], v) : p \in EdgePairs, v \in MatchValues}

TriangleLists ==
    {<<Edge("A", "B", 2), Edge("C", "A", 3), Edge("B", "C", 2)>>,
     <<Edge("A", "B", 2), Edge("C", "A", 1), Edge("B", "C", 3)>>,
     <<Edge("A", "B", 2), Edge("A", "C", 2), Edge("B", "C", 2),
       Edge("A", "D", 3), Edge("B", "D", 3), Edge("C", "D", 1)>>,
     <<Edge("A", "B", 1), Edge("B", "A", 3), Edge("A", "C", 2), Edge("B", "C", 2)>>}

EdgeLists ==
    UNION {[1..n -> Edges] : n \in 0..MaxEdges} \cup TriangleLists

\* the ingredient lists the scores are asked for, one question a behaviour
MaxLen == 3
Letters == {"A", "B", "C"}
IngredientLists ==
    UNION {[1..n -> Letters] : n \in 0..MaxLen}
        \cup {<<"A", "B", "C", "D">>, <<"D", "B", "A", "C">>, <<"A", "">>, <<"", "A">>}

CallBuildMatchesLookup ==
    /\ last = NoCall
    /\ last' = Returned("build_matches_lookup", <<>>, build_matches_lookup(matches_df))
    /\ UNCHANGED <<ingredients_df, matches_df, generator_segment, call, variants, menu_items, tier_dicts>>

CallScoreCombo(ingredients) ==
    /\ last = NoCall
    /\ last' = Returned("score_combo", <<ingredients>>, score_combo(ingredients, matches_df))
    /\ UNCHANGED <<ingredients_df, matches_df, generator_segment, call, variants, menu_items, tier_dicts>>

CallAvgMatchvalue(ingredients) ==
    /\ last = NoCall
    /\ last' = Returned("avg_matchvalue", <<ingredients>>,
                        avg_matchvalue(ingredients, matches_df))
    /\ UNCHANGED <<ingredients_df, matches_df, generator_segment, call, variants, menu_items, tier_dicts>>

CallCountTriangles(ingredients) ==
    /\ last = NoCall
    /\ last' = Returned("_count_triangles", <<ingredients>>,
                        count_triangles(ingredients, matches_df))
    /\ UNCHANGED <<ingredients_df, matches_df, generator_segment, call, variants, menu_items, tier_dicts>>

InitCompat ==
    /\ ingredients_df = <<>>
    /\ matches_df \in EdgeLists
    /\ generator_segment = Unbound
    /\ call = Idle
    /\ variants = <<>>
    /\ last = NoCall
    /\ menu_items = <<>>
    /\ tier_dicts = <<>>

NextCompat ==
    \/ CallBuildMatchesLookup
    \/ \E ingredients \in IngredientLists : CallScoreCombo(ingredients)
    \/ \E ingredients \in IngredientLists : CallAvgMatchvalue(ingredients)
    \/ \E ingredients \in IngredientLists : CallCountTriangles(ingredients)

SpecCompat == InitCompat /\ [][NextCompat]_vars

(***************************************************************************)
(* Pricing on its own: one held variant is priced for a cost expectation,   *)
(* the returned tiers are stored on it (app.py:683-689), and it is priced   *)
(* again.                                                                   *)
(***************************************************************************)
\* the ingredient lists priced; "Saffron" is in no catalog
PricedLists ==
    {<<"Salmon">>, <<"Pasta">>, <<"Salmon", "Pasta", "Tomato">>,
     <<"Tomato", "Pasta">>, <<"Pasta", "Saffron">>,
     <<"Basil", "Butter", "Parmesan", "Capers", "Pepper">>,
     <<"Parmesan", "Basil">>, <<"Tomato">>, <<"Salmon", "Tomato">>,
     <<"Butter", "Basil">>, <<"Basil", "Pepper", "Capers">>,
     <<"Basil", "Pepper", "Capers", "Parmesan", "Butter">>,
     <<"Lemon">>, <<"Truffle">>, <<"Truffle", "Lemon">>}

\* the variant of a list, as _generate_single_variant builds it (lines 341-362)
VariantOf(ingredients, template, df, mdf) ==
    RecipeVariant(ingredients,
                  role_assignment(template, ingredients[1], Tail(ingredients), df),
                  EmptyMap,
                  calculate_flavor_profile(ingredients, df),
                  score_combo(ingredients, mdf),
                  count_triangles(ingredients, mdf),
                  [style |-> "classico", count |-> Len(ingredients),
                   compatibility_avg |-> score_combo(ingredients, mdf),
                   triangles |-> count_triangles(ingredients, mdf)],
                  "classico")

\* the cost expectations of the sections, in money
CostExpectations ==
    {0, 50 * Cent, 100 * Cent, 110 * Cent, 175 * Cent, 200 * Cent, 380 * Cent,
     400 * Cent, 475 * Cent, 800 * Cent, 1005 * Cent, 12346 * (Cent \div 10),
     1250 * Cent, 2000 * Cent, 2500 * Cent}

\* app.py:683-689: the variant is priced and the tiers are stored on it
CallTargetBasedTiering(cost_expectation) ==
    /\ variants # <<>>
    /\ last.fn \in {"none", "target_based_tiering"}
    /\ last' = Returned("target_based_tiering", <<cost_expectation>>,
                        target_based_tiering(variants[1], ingredients_df, cost_expectation))
    /\ variants' = [variants EXCEPT
                       ![1].tiers = target_based_tiering(variants[1], ingredients_df,
                                                         cost_expectation).tiers]
    /\ UNCHANGED <<ingredients_df, matches_df, generator_segment, call, menu_items, tier_dicts>>

\* the catalogs priced, each with a match list
PricedDatasets == Datasets \cup {<<Catalogs[3], <<>>>>}

InitPricing ==
    /\ \E dataset \in PricedDatasets :
          /\ ingredients_df = dataset[1]
          /\ matches_df = dataset[2]
          /\ \E ingredients \in PricedLists :
                /\ RowsNamed(dataset[1], ingredients[1]) # <<>>
                /\ variants = <<VariantOf(ingredients, "Pasta", dataset[1], dataset[2])>>
    /\ generator_segment = Unbound
    /\ call = Idle
    /\ last = NoCall
    /\ menu_items = <<>>
    /\ tier_dicts = <<>>

NextPricing ==
    \E cost_expectation \in CostExpectations : CallTargetBasedTiering(cost_expectation)

SpecPricing == InitPricing /\ [][NextPricing]_vars

(***************************************************************************)
(* Rating on its own                                                        *)
(***************************************************************************)
\* sub-scores, in tenths of a point
EvaluationBases == {0, 100}
PerkBonuses == {0, 60, 150, 300}
QualityBonuses == {0, 7, 14, 196, 200}
CompatBonuses == {0, 75, 150, 180}
ComplexityScores == {-50, -20, 0, 20, 30}

Tenths(n) == Norm(Frac(n, 10))

CallFinalStars(evaluation_base, perk, quality, compat, complexity) ==
    /\ last = NoCall
    /\ last' = Returned("final_stars",
                        <<evaluation_base, perk, quality, compat, complexity>>,
                        final_stars(Tenths(evaluation_base), Tenths(perk), Tenths(quality),
                                    Tenths(compat), Tenths(complexity), 20))
    /\ UNCHANGED <<ingredients_df, matches_df, generator_segment, call, variants, menu_items, tier_dicts>>

TierNames == {"NORMAL", "FIRST_CHOICE", "GOURMET"}
TemplateCategories == {"Pasta & Riso", "Pesce", "Burger", "Altro"}

CallGetRatingBreakdown(tier, template_category, is_gourmet) ==
    /\ last = NoCall
    /\ variants # <<>>
    /\ last' = Returned("get_rating_breakdown", <<tier, template_category, is_gourmet>>,
                        get_rating_breakdown(
                            variants[1],
                            [ing \in Range(variants[1].ingredients) |-> tier],
                            template_category, ingredients_df, is_gourmet))
    /\ UNCHANGED <<ingredients_df, matches_df, generator_segment, call, variants, menu_items, tier_dicts>>

\* tier maps handed to quality_bonus: every map over at most four names, each value
\* a tier of QUALITY_UNIT or one it does not list, and long maps that reach the cap
TierKeys == {"Salmon", "Pasta", "Tomato", "Butter"}
TierValues == TierNames \cup {"PREMIUM"}
BulkKeys == <<"Salmon", "Pasta", "Tomato", "Butter", "Basil", "Pepper", "Capers",
              "Parmesan", "Lemon", "Truffle", "Saffron", "Garlic", "Onion", "Thyme",
              "Cream", "Shrimp">>
BulkMap(n, g) == [k \in {BulkKeys[i] : i \in 1..n} |-> IF \E i \in 1..g : BulkKeys[i] = k THEN "GOURMET" ELSE "FIRST_CHOICE"]
TierMaps ==
    UNION {[keys -> TierValues] : keys \in SUBSET TierKeys}
        \cup {BulkMap(n, g) : n \in 13..Len(BulkKeys), g \in {0, 10, 13}}

CallQualityBonus(tiers) ==
    /\ last = NoCall
    /\ last' = Returned("quality_bonus", <<tiers>>, quality_bonus(tiers, 20))
    /\ UNCHANGED <<ingredients_df, matches_df, generator_segment, call, variants, menu_items, tier_dicts>>

NextRating ==
    \/ \E tiers \in TierMaps : CallQualityBonus(tiers)
    \/ \E evaluation_base \in EvaluationBases, perk \in PerkBonuses,
          quality \in QualityBonuses, compat \in CompatBonuses,
          complexity \in ComplexityScores :
          CallFinalStars(evaluation_base, perk, quality, compat, complexity)
    \/ \E tier \in TierNames, template_category \in TemplateCategories,
          is_gourmet \in BOOLEAN :
          CallGetRatingBreakdown(tier, template_category, is_gourmet)

SpecRating == InitPricing /\ [][NextRating]_vars

(***************************************************************************)
(* The fit on its own: the three functions of rating.py:142-385 are asked   *)
(* about one held variant, one question a behaviour.                        *)
(***************************************************************************)
\* a segment whose three weights are all 0
Fasting ==
    [name |-> "Fasting", favourite_tags |-> {"Herbs"},
     tag_score_weight |-> 0, price_score_weight |-> 0, evaluation_score_weight |-> 0,
     sections |-> [MainCourse |-> Section(800)]]

\* a segment with one weight above 1 and expectation multipliers above 1
Eager ==
    [name |-> "Eager", favourite_tags |-> {"Seafood", "Carbs"},
     secondary_favourite_tags |-> {"Fat"},
     price_score_weight |-> 250,
     expectations |-> [Seafood |-> 150, Acid |-> 120, Carbs |-> 90, Herbs |-> 130],
     sections |-> [MainCourse |-> Section(1000), appetizer |-> Section(400)]]

\* a segment that dislikes two tags: negative desire multipliers
Averse ==
    [name |-> "Averse", expectations |-> [Seafood |-> -150, Herbs |-> -150],
     sections |-> [MainCourse |-> Section(800)]]

\* a segment whose preferences are given, and empty
Plain ==
    [name |-> "Plain", favourite_tags |-> {}, secondary_favourite_tags |-> {},
     expectations |-> EmptyMap, sections |-> [MainCourse |-> Section(400)]]

FitSegments == Segments \cup {Fasting, Eager, Averse, Plain}

FitSections == {"MainCourse", "Appetizer"}

\* suggested prices, in money
FitPrices ==
    {0, 340 * Cent, 380 * Cent, 400 * Cent, 420 * Cent, 421 * Cent, 460 * Cent,
     461 * Cent, 850 * Cent,
     950 * Cent, 1000 * Cent, 1050 * Cent, 1051 * Cent, 1100 * Cent, 1150 * Cent,
     1151 * Cent, 1300 * Cent, 1650 * Cent, 1700 * Cent, 2500 * Cent}

\* the stars a card passes on: rating_breakdown['stars']
FitStars == {Whole(1), Frac(37, 10), Whole(5)}

CallCalculatePriceFit(suggested_price, cost_expectation) ==
    /\ last = NoCall
    /\ last' = Returned("_calculate_price_fit", <<suggested_price, cost_expectation>>,
                        calculate_price_fit(suggested_price, cost_expectation))
    /\ UNCHANGED <<ingredients_df, matches_df, generator_segment, call, variants, menu_items, tier_dicts>>

CallCalculateTagFit(segment) ==
    /\ last = NoCall
    /\ variants # <<>>
    /\ last' = Returned("_calculate_tag_fit", <<segment>>,
                        calculate_tag_fit(segment, variants[1], ingredients_df))
    /\ UNCHANGED <<ingredients_df, matches_df, generator_segment, call, variants, menu_items, tier_dicts>>

CallSegmentFit(stars, segment, section, suggested_price) ==
    /\ last = NoCall
    /\ variants # <<>>
    /\ last' = Returned("segment_fit", <<stars, segment, section, suggested_price>>,
                        segment_fit(stars, segment, section, suggested_price,
                                    variants[1], ingredients_df))
    /\ UNCHANGED <<ingredients_df, matches_df, generator_segment, call, variants, menu_items, tier_dicts>>

NextFit ==
    \/ \E suggested_price \in FitPrices, cost_expectation \in CostExpectations :
          CallCalculatePriceFit(suggested_price, cost_expectation)
    \/ \E segment \in FitSegments : CallCalculateTagFit(segment)
    \/ \E stars \in FitStars, segment \in FitSegments, section \in FitSections,
          suggested_price \in FitPrices :
          CallSegmentFit(stars, segment, section, suggested_price)

SpecFit == InitPricing /\ [][NextFit]_vars

(***************************************************************************)
(* Role assignment on its own                                              *)
(***************************************************************************)
Rice == Ingredient("Rice", {"Rice", "Basic"}, Flavor(0, 0, 0, 1, 0, 0), Costs(40, 90, 160))

\* a catalog with two ingredients a base can be made of
RoleCatalog == <<Salmon, Pasta, Rice, Tomato, Butter>>

\* the selected ingredients, anchor first: distinct names, "Saffron" in no catalog
SelectedLists ==
    {s \in UNION {[1..n -> {"Salmon", "Pasta", "Rice", "Tomato", "Saffron"}] : n \in 1..3} :
        \A i, j \in DOMAIN s : i # j => s[i] # s[j]}

CallRoleAssignment(template, selected_ingredients) ==
    /\ last = NoCall
    /\ last' = Returned("role_assignment",
                        <<template, selected_ingredients[1], Tail(selected_ingredients)>>,
                        role_assignment(template, selected_ingredients[1],
                                        Tail(selected_ingredients), ingredients_df))
    /\ UNCHANGED <<ingredients_df, matches_df, generator_segment, call, variants, menu_items, tier_dicts>>

InitRoles ==
    /\ ingredients_df \in {Catalogs[1], RoleCatalog}
    /\ matches_df = MatchLists[1]
    /\ variants = <<>>
    /\ generator_segment = Unbound
    /\ call = Idle
    /\ last = NoCall
    /\ menu_items = <<>>
    /\ tier_dicts = <<>>

NextRoles ==
    \E template \in DOMAIN TEMPLATES_CATALOG, selected_ingredients \in SelectedLists :
        CallRoleAssignment(template, selected_ingredients)

SpecRoles == InitRoles /\ [][NextRoles]_vars

(***************************************************************************)
(* Generation from a long catalog                                          *)
(***************************************************************************)
\* a row of the long catalog: only the name and the tags differ
Shelf(name, tags) == Ingredient(name, tags, Flavor(0, 1, 0, 0, 1, 0), Costs(50, 100, 200))

\* twelve rows, so that a pool outlasts the longest list a template asks for
LongCatalog ==
    <<Tomato, Pasta, Butter, Basil, Pepper, Capers, Parmesan, Lemon, Truffle,
      Shelf("Rice", {"Rice"}), Shelf("Garlic", {"Vegetables"}), Shelf("Cream", {"Fat"})>>

\* MatchValue 0 from the anchor Tomato to all but two rows: their weight in
\* the draw is 0, so they are drawn only from the head of the list
LongMatches ==
    <<Edge("Tomato", "Butter", 0), Edge("Tomato", "Pepper", 0), Edge("Capers", "Tomato", 0),
      Edge("Tomato", "Parmesan", 0), Edge("Tomato", "Truffle", 0), Edge("Rice", "Tomato", 0),
      Edge("Tomato", "Cream", 0), Edge("Tomato", "Pasta", 0), Edge("Garlic", "Tomato", 0),
      Edge("Tomato", "Basil", 3)>>

SampleRequests ==
    {"Pasta", "Veggie Burger", "Salad", "Cheesecake", "Sushi"} \X {"Tomato", "Ghost"} \X {1, 3}

InitSample ==
    /\ \E dataset \in {<<LongCatalog, LongMatches>>, <<Catalogs[1], MatchLists[1]>>} :
          ingredients_df = dataset[1] /\ matches_df = dataset[2]
    /\ generator_segment \in {Unbound, Walkin}
    /\ call = Idle
    /\ variants = <<>>
    /\ last = NoCall
    /\ menu_items = <<>>
    /\ tier_dicts = <<>>

NextSample ==
    \/ \E request \in SampleRequests :
          CallGenerateVariants(Walkin, "MainCourse", request[1], request[2], request[3])
    \/ FindAnchor
    \/ ValidateTemplate
    \/ BuildCandidatePool
    \/ GenerateSingleVariant
    \/ ReturnVariants

SpecSample == InitSample /\ [][NextSample]_vars

(***************************************************************************)
(* The three calls of a card, one at a time                                *)
(***************************************************************************)
CardTemplates == {"Pasta", "Sushi"}
CardCustomers == {Gourmet, Walkin, Averse}

\* a pricing that puts the list of the variant itself into upgrade order
PriceCard_reordering(customer, section, template_name) ==
    /\ variants # <<>>
    /\ last.fn \in {"none", "segment_fit"}
    /\ last' = Returned("target_based_tiering", <<customer, section, template_name>>,
                        target_based_tiering(
                            variants[1], ingredients_df,
                            get_customer_section_info(customer, section).cost_expectation))
    /\ variants' = [variants EXCEPT
                       ![1].tiers = last'.value.tiers,
                       ![1].ingredients = UpgradePriority(variants[1].ingredients,
                                                        variants[1].roles)]
    /\ UNCHANGED <<ingredients_df, matches_df, generator_segment, call, menu_items, tier_dicts>>

\* app.py:685-689: the held variant is priced for the section of the customer
\* and the tiers are stored on it; the script runs again after a card is done
PriceCard(customer, section, template_name) ==
    /\ variants # <<>>
    /\ last.fn \in {"none", "segment_fit"}
    /\ last' = Returned("target_based_tiering", <<customer, section, template_name>>,
                        target_based_tiering(
                            variants[1], ingredients_df,
                            get_customer_section_info(customer, section).cost_expectation))
    /\ variants' = [variants EXCEPT ![1].tiers = last'.value.tiers]
    /\ UNCHANGED <<ingredients_df, matches_df, generator_segment, call, menu_items, tier_dicts>>

\* app.py:691-693: the priced variant is rated with the tiers stored on it
RateCard ==
    /\ last.fn = "target_based_tiering"
    /\ last' = Returned("get_rating_breakdown",
                        <<last.args[1], last.args[2], last.args[3], last.value,
                          variants[1].tiers>>,
                        get_rating_breakdown(
                            variants[1], variants[1].tiers,
                            get_template_category(last.args[3]), ingredients_df,
                            is_gourmet_segment(Get(last.args[1], "name", ""), last.args[1])))
    /\ UNCHANGED <<ingredients_df, matches_df, generator_segment, call, variants, menu_items, tier_dicts>>

\* app.py:696-698: the fit for the stars of the rating and the suggested price
FitCard ==
    /\ last.fn = "get_rating_breakdown"
    /\ last' = Returned("segment_fit",
                        <<last.args[1], last.args[2], last.args[3], last.args[4],
                          last.value>>,
                        segment_fit(last.value.stars, last.args[1], last.args[2],
                                    last.args[4].price, variants[1], ingredients_df))
    /\ UNCHANGED <<ingredients_df, matches_df, generator_segment, call, variants, menu_items, tier_dicts>>

NextCard ==
    \/ \E customer \in CardCustomers, section \in Sections, template_name \in CardTemplates :
          PriceCard(customer, section, template_name)
    \/ RateCard
    \/ FitCard

SpecCard == InitPricing /\ [][NextCard]_vars

(***************************************************************************)
(* The session: requests one after another, and the saved recipes.  A      *)
(* saved recipe holds its tier dictionary by reference (tier_dicts maps    *)
(* the identity of a dictionary to its content); a dictionary no recipe    *)
(* refers to is dropped.                                                   *)
(***************************************************************************)
MaxMenu == 2
MaxCopies == 1

\* app.py:1001: the options of the hero tier
HERO_TIER_OPTIONS == <<"NORMAL", "FIRST_CHOICE", "GOURMET">>

\* the texts typed into the notes field
EditNotes == {"meno sale"}

\* the notes of a variant as the card stores them (app.py:783): the dict itself
NotesOfVariant(notes) == [copies |-> 0, text |-> "", dict |-> <<notes>>, is_str |-> FALSE]

\* a text typed by the user
NotesTyped(text) == [copies |-> 0, text |-> text, dict |-> <<>>, is_str |-> TRUE]

\* str(notes): what st.text_area shows for the current notes (app.py:1008-1011)
NotesText(notes) == [notes EXCEPT !.is_str = TRUE]

\* app.py:1042: f"Copia di: {duplicate.get('notes', '')}"
NotesOfCopy(notes) == [notes EXCEPT !.copies = @ + 1, !.is_str = TRUE]

\* the identity of a new dictionary
NewDict(heap) == CHOOSE r \in 1..(Cardinality(DOMAIN heap) + 1) : r \notin DOMAIN heap

\* the dictionaries some recipe refers to
LiveDicts(heap, items) ==
    IF items = <<>> THEN <<>>
    ELSE [r \in {items[i].tiers : i \in DOMAIN items} |-> heap[r]]

\* domain_utils.collect_tags, for tags held as lists
collect_tags(ingredients, df) ==
    UNION {RowsNamed(df, ingredients[i])[1].tags :
              i \in {j \in DOMAIN ingredients : RowsNamed(df, ingredients[j]) # <<>>}}

\* app.py:770-786: the menu item of a card; tiers is the dictionary of the card
MenuItem(card, tiers, customer, section, template_name, df) ==
    [template |-> template_name, anchor |-> card.variant.ingredients[1],
     style |-> card.variant.style, ingredients |-> card.variant.ingredients,
     roles |-> card.variant.roles, tiers |-> tiers, cost |-> card.pricing.cost,
     price |-> card.pricing.price, stars |-> card.rating.stars,
     segment_fit |-> card.fit.total_fit, customer |-> Get(customer, "name", ""),
     section |-> section, notes |-> NotesOfVariant(card.variant.notes),
     tag_set |-> collect_tags(card.variant.ingredients, df), fit_breakdown |-> card.fit]

\* a menu item as it reads: the tier dictionary in place of its identity
ItemView(items, heap, i) == [items[i] EXCEPT !.tiers = heap[items[i].tiers]]

\* the next run of the script begins: nothing of the last call is pending
NextRun ==
    /\ call.pc = "idle"
    /\ last # NoCall
    /\ last' = NoCall
    /\ UNCHANGED <<ingredients_df, matches_df, generator_segment, call, variants, menu_items, tier_dicts>>

\* app.py:663-670 and 765-788: a run that renders the cards of the held
\* variants, each storing its tiers on its variant, and in which the button
\* of card i is pressed
AddToMenu(i, customer, section, template_name, room) ==
    /\ call.pc = "idle"
    /\ last = NoCall
    /\ i \in DOMAIN variants
    /\ Len(menu_items) < room
    /\ last' = Returned("add_to_menu", <<customer, section, template_name, i>>,
                        Card(variants[i], customer, section, template_name, ingredients_df))
    /\ variants' = [j \in DOMAIN variants |->
                       IF j = i THEN last'.value.variant
                       ELSE Card(variants[j], customer, section, template_name,
                                 ingredients_df).variant]
    /\ LET r == NewDict(tier_dicts) IN
          /\ menu_items' = Append(menu_items,
                                  MenuItem(last'.value, r, customer, section,
                                           template_name, ingredients_df))
          /\ tier_dicts' = Put(tier_dicts, r, last'.value.pricing.tiers)
    /\ UNCHANGED <<ingredients_df, matches_df, generator_segment, call>>

\* app.py:1033-1047: duplicate_recipe
DuplicateRecipe(recipe_index) ==
    /\ recipe_index \in DOMAIN menu_items
    /\ Len(menu_items) < MaxMenu
    /\ menu_items[recipe_index].notes.copies < MaxCopies
    /\ LET original_recipe == menu_items[recipe_index]
           duplicate == [original_recipe EXCEPT !.notes = NotesOfCopy(@)]
       IN  menu_items' = Append(menu_items, duplicate)
    /\ last' = Returned("duplicate_recipe", <<recipe_index>>, None)
    /\ UNCHANGED <<ingredients_df, matches_df, generator_segment, call, variants, tier_dicts>>

\* app.py:1016-1026: the edit of a recipe is saved
SaveEdit(recipe_index, new_hero_tier, new_notes) ==
    /\ recipe_index \in DOMAIN menu_items
    /\ LET recipe == menu_items[recipe_index]
           hero_ingredient == IF recipe.ingredients # <<>> THEN recipe.ingredients[1] ELSE ""
       IN  /\ tier_dicts' =
                 IF DOMAIN tier_dicts[recipe.tiers] # {} /\ hero_ingredient # ""
                 THEN [tier_dicts EXCEPT ![recipe.tiers] = Put(@, hero_ingredient, new_hero_tier)]
                 ELSE tier_dicts
           /\ menu_items' = [menu_items EXCEPT ![recipe_index].notes = new_notes]
    /\ last' = Returned("save_edit", <<recipe_index, new_hero_tier, new_notes>>, None)
    /\ UNCHANGED <<ingredients_df, matches_df, generator_segment, call, variants>>

\* app.py:1908-1910: menu_items.pop(i)
DeleteRecipe(i) ==
    /\ i \in DOMAIN menu_items
    /\ menu_items' = [j \in 1..(Len(menu_items) - 1) |->
                         IF j < i THEN menu_items[j] ELSE menu_items[j + 1]]
    /\ tier_dicts' = LiveDicts(tier_dicts, menu_items')
    /\ last' = Returned("delete_recipe", <<i>>, None)
    /\ UNCHANGED <<ingredients_df, matches_df, generator_segment, call, variants>>

\* app.py:976-978: the menu is emptied
ClearMenu ==
    /\ menu_items # <<>>
    /\ menu_items' = <<>>
    /\ tier_dicts' = <<>>
    /\ last' = Returned("clear_menu", <<>>, None)
    /\ UNCHANGED <<ingredients_df, matches_df, generator_segment, call, variants>>

\* the requests of the session: <<template, anchor_name>>, three variants each
SessionRequests == {"Pasta", "Grilled Fish"} \X {"Salmon", "Pasta", "Ghost"}

\* the recipes a session may hold while requests are made
SessionMenu == 1

InitSession ==
    /\ ingredients_df = Catalogs[1]
    /\ matches_df = MatchLists[1]
    /\ generator_segment \in {Unbound, Gourmet}
    /\ call = Idle
    /\ variants = <<>>
    /\ last = NoCall
    /\ menu_items = <<>>
    /\ tier_dicts = <<>>

NextSession ==
    \/ \E request \in SessionRequests :
          CallGenerateVariants(Gourmet, "MainCourse", request[1], request[2], 3)
    \/ FindAnchor
    \/ ValidateTemplate
    \/ BuildCandidatePool
    \/ GenerateSingleVariant
    \/ ReturnVariants
    \/ NextRun
    \/ AddToMenu(1, Gourmet, "MainCourse", "Pasta", SessionMenu)

SpecSession == InitSession /\ [][NextSession]_vars

\* the variants held while the menu is worked on
MenuVariants ==
    <<VariantOf(<<"Salmon", "Pasta", "Tomato">>, "Pasta", Catalogs[1], MatchLists[1]),
      VariantOf(<<"Tomato", "Pasta">>, "Pasta", Catalogs[1], MatchLists[1])>>

InitMenu ==
    /\ ingredients_df = Catalogs[1]
    /\ matches_df = MatchLists[1]
    /\ generator_segment = Unbound
    /\ call = Idle
    /\ variants = MenuVariants
    /\ last = NoCall
    /\ menu_items = <<>>
    /\ tier_dicts = <<>>

NextMenu ==
    \/ NextRun
    \/ \E i \in 1..2 : AddToMenu(i, Gourmet, "MainCourse", "Pasta", MaxMenu)
    \/ \E recipe_index \in 1..MaxMenu : DuplicateRecipe(recipe_index)
    \/ \E recipe_index \in 1..MaxMenu, t \in 1..Len(HERO_TIER_OPTIONS) :
          \E new_notes \in {NotesTyped(text) : text \in EditNotes}
                              \cup {NotesText(menu_items[i].notes) : i \in DOMAIN menu_items} :
             /\ recipe_index \in DOMAIN menu_items
             /\ new_notes.dict # <<>> => new_notes = NotesText(menu_items[recipe_index].notes)
             /\ SaveEdit(recipe_index, HERO_TIER_OPTIONS[t], new_notes)
    \/ \E i \in 1..MaxMenu : DeleteRecipe(i)
    \/ ClearMenu

SpecMenu == InitMenu /\ [][NextMenu]_vars

(***************************************************************************)
(* The rule table of templates_catalog.py beside the check                 *)
(***************************************************************************)
\* TEMPLATE_RULES["compatibility_rules"] (templates_catalog.py:255-292)
TEMPLATE_RULES ==
    [fish_templates |->
         {"Grilled Fish", "Steamed Fish", "Roasted Fish", "Fish Soup", "Fish Tartare",
          "Fried Fish", "Fish Burger"},
     fish_required_tags |-> {"Seafood"},
     meat_templates |->
         {"Grilled Meat", "Meat Stew", "Roasted Meat", "Boiled Meat", "Stuffed Meat",
          "Meatballs", "Braised Meat", "Meat Tartare", "Fried Meat", "Hamburger"},
     meat_required_tags |-> {"Meat"},
     vegetarian_templates |->
         {"Sautéed Veggies", "Salad", "Grilled Veggies", "Steamed Veggies",
          "Roasted Veggies", "Vegetable Soup", "Velvety", "Fried Veggies", "Veggie Burger"},
     vegetarian_forbidden_tags |-> {"Meat", "Seafood"},
     dessert_templates |->
         {"Pie", "Cookies", "Semifreddo", "Pastries", "Cheesecake", "Ice Cream",
          "Fried Dessert", "Millefeuille"},
     dessert_forbidden_main_tags |-> {"Meat", "Seafood"},
     carb_templates |->
         {"Pasta", "Gnocchi", "Lasagne", "Stuffed Pasta", "Sautéed Rice", "Risotto",
          "Paella", "Rice Pie"},
     carb_preferred_tags |-> {"Pasta", "Rice", "Carbs"}]

\* templates_catalog.py:306-324
get_template_compatibility_type(template_name) ==
    IF template_name \in TEMPLATE_RULES.fish_templates THEN "fish"
    ELSE IF template_name \in TEMPLATE_RULES.meat_templates THEN "meat"
    ELSE IF template_name \in TEMPLATE_RULES.vegetarian_templates THEN "vegetarian"
    ELSE IF template_name \in TEMPLATE_RULES.dessert_templates THEN "dessert"
    ELSE IF template_name \in TEMPLATE_RULES.carb_templates THEN "carb"
    ELSE "neutral"

\* the tag sets of the anchors checked
AnchorTagSets == SUBSET {"Seafood", "Meat", "Carbs", "Vegetables"}

\* an anchor row with the given tags
AnchorTagged(tags) == Ingredient("Anchor", tags, Flavor(0, 0, 0, 0, 0, 0), Costs(100, 200, 300))

\* templates_catalog.py:141: the check is asked about a template and an anchor
CallCheckTemplateCompatibility(template_name, anchor_ingredient) ==
    /\ last = NoCall
    /\ last' = Returned("check_template_compatibility", <<template_name, anchor_ingredient>>,
                        [verdict |-> check_template_compatibility(template_name,
                                                                  anchor_ingredient),
                         type |-> get_template_compatibility_type(template_name)])
    /\ UNCHANGED <<ingredients_df, matches_df, generator_segment, call, variants, menu_items, tier_dicts>>

NextRules ==
    \E template_name \in (DOMAIN TEMPLATES_CATALOG) \cup {"Sushi"}, tags \in AnchorTagSets :
        CallCheckTemplateCompatibility(template_name, AnchorTagged(tags))

SpecRules == InitRoles /\ [][NextRules]_vars

(***************************************************************************)
(* Properties of generation and of the cards (specification Spec)           *)
(***************************************************************************)
HeroFirst(variant, anchor) ==
    /\ Len(variant.ingredients) >= 1
    /\ variant.ingredients[1] = anchor
    /\ anchor \in DOMAIN variant.roles
    /\ variant.roles[anchor] = "hero"

ReturnedVariants == last.fn = "generate_variants" /\ last.raised = None

\* C1: every variant generate_variants returns has the requested anchor first,
\* with role hero; rendering a card (pricing, rating and fit of a held
\* variant) leaves the first ingredient of every held variant what it was, and
\* its role hero.
C1_HeroInvariant ==
    [][/\ (call.pc = "loop" /\ call'.pc = "idle" /\ last'.raised = None)
            => /\ variants' = last'.value
               /\ \A i \in DOMAIN variants' : HeroFirst(variants'[i], call.anchor_name)
       /\ last'.fn = "render_variant_card"
            => /\ DOMAIN variants' = DOMAIN variants
               /\ \A i \in DOMAIN variants :
                     HeroFirst(variants'[i], variants[i].ingredients[1])]_vars

\* the third card of a Salmon request has been priced up, rated and fitted
C1_Witness ==
    /\ last.fn = "render_variant_card"
    /\ last.args[4] = 3
    /\ variants[3].ingredients[1] = "Salmon"
    /\ variants[3].roles["Salmon"] = "hero"
    /\ variants[3].tiers["Salmon"] = "GOURMET"
    /\ last.value.fit.total_fit.num > 0

RoleNames == {"hero", "base", "fat", "cheese", "seasoning", "complement"}

\* C2: in every returned variant the keys of the role map are exactly the
\* selected ingredients, and every role is one of the six.
C2_RoleMapKeys ==
    ReturnedVariants =>
        \A i \in DOMAIN last.value :
            /\ DOMAIN last.value[i].roles = Range(last.value[i].ingredients)
            /\ \A ing \in DOMAIN last.value[i].roles :
                  last.value[i].roles[ing] \in RoleNames

\* a returned variant of five ingredients with hero, fat, cheese and seasonings
C2_Witness ==
    /\ ReturnedVariants
    /\ \E i \in DOMAIN last.value :
          /\ Len(last.value[i].ingredients) = 5
          /\ {last.value[i].roles[ing] : ing \in DOMAIN last.value[i].roles}
                = {"hero", "fat", "cheese", "seasoning"}

\* the hard tag rules of the requested templates, as the specification words
\* them: a fish template needs Seafood, a vegetarian one forbids Meat and
\* Seafood
HardRuleBroken(template, tags) ==
    \/ template = "Grilled Fish" /\ "Seafood" \notin tags
    \/ template \in {"Salad", "Veggie Burger"} /\ tags \cap {"Meat", "Seafood"} # {}

RequestRefused(template, anchor_name) ==
    \/ RowsNamed(ingredients_df, anchor_name) = <<>>
    \/ HardRuleBroken(template, RowsNamed(ingredients_df, anchor_name)[1].tags)

C6_CompletesAsClaimed ==
    (last.fn = "generate_variants" /\ ~RequestRefused(last.args[3], last.args[4]))
        => last.raised = None

\* C7: a call that returns, returns min(n, 3) variants, the i-th of the i-th
\* style of classico, fresco, umami.
C7_CountAndStyles ==
    ReturnedVariants =>
        /\ Len(last.value) = (IF last.args[5] < 3 THEN last.args[5] ELSE 3)
        /\ \A i \in DOMAIN last.value :
              last.value[i].style = <<"classico", "fresco", "umami">>[i]

\* four variants were asked and three came back
C7_Witness ==
    /\ ReturnedVariants
    /\ last.args[5] = 4
    /\ Len(last.value) = 3
    /\ last.value[3].style = "umami"

(***************************************************************************)
(* Properties of the rating (specification SpecRating)                      *)
(***************************************************************************)
InOneToFive(stars) == FLe(Whole(1), stars) /\ FLe(stars, Whole(5))

\* C3: the stars final_stars returns, and the stars of get_rating_breakdown,
\* are at least 1 and at most 5 for every combination of sub-scores.
C3_StarsInRange ==
    /\ last.fn = "final_stars" => InOneToFive(last.value)
    /\ last.fn = "get_rating_breakdown" => InOneToFive(last.value.stars)

\* base 10 with every bonus 0 and complexity -5: 5 / 20 is raised to 1
C3_Witness ==
    /\ last.fn = "final_stars"
    /\ last.args = <<100, 0, 0, 0, -50>>
    /\ last.value = Whole(1)

(***************************************************************************)
(* Properties of pricing (specification SpecPricing)                        *)
(***************************************************************************)
\* C4: with the returned tiers stored on the variant, pricing it again for
\* the same cost expectation returns the same tiers, cost and price.
C4_TieringIdempotent ==
    last.fn = "target_based_tiering" =>
        /\ variants[1].tiers = last.value.tiers
        /\ target_based_tiering(variants[1], ingredients_df, last.args[1]) = last.value

\* a variant priced up for 8.00 carries the tiers it was given, its hero GOURMET
C4_Witness ==
    /\ last.fn = "target_based_tiering"
    /\ last.args[1] = 800 * Cent
    /\ Len(variants[1].ingredients) >= 2
    /\ variants[1].tiers = last.value.tiers
    /\ variants[1].tiers[variants[1].ingredients[1]] = "GOURMET"

\* the cost is within 15% of the expectation
WithinBand(cost, cost_expectation) ==
    100 * Abs(cost - cost_expectation) <= 15 * cost_expectation

\* 100 times the larger of cost x 1.1 and expectation x 0.85
HundredFloors(cost, cost_expectation) ==
    IF 110 * cost >= 85 * cost_expectation THEN 110 * cost ELSE 85 * cost_expectation

\* p is a whole number of cents, and no whole number of cents is nearer to
\* x100 / 100
NearestCent(p, x100) == p % Cent = 0 /\ 2 * Abs(100 * p - x100) <= 100 * Cent

Joining(a, b) ==
    {i \in DOMAIN matches_df : {matches_df[i].A, matches_df[i].B} = {a, b}}

\* the value of the first row that joins a and b, 1 when none does
FirstValue(a, b) ==
    IF Joining(a, b) = {} THEN 1
    ELSE matches_df[CHOOSE i \in Joining(a, b) : \A j \in Joining(a, b) : i <= j].MatchValue

IsValue(score, v) == score.num = v * score.den

Listed(lookup, name, partner, v) ==
    name \in DOMAIN lookup /\ \E i \in DOMAIN lookup[name] : lookup[name][i] = <<partner, v>>

\* C8, as claimed: every edge (A, B, v) is listed under both names in the
\* lookup, and the value found for the pair, in either order, is v; a pair
\* without an edge has value 1.
C8_PairValueAsClaimed ==
    /\ last.fn = "build_matches_lookup" =>
          \A i \in DOMAIN matches_df :
              /\ Listed(last.value, matches_df[i].A, matches_df[i].B, matches_df[i].MatchValue)
              /\ Listed(last.value, matches_df[i].B, matches_df[i].A, matches_df[i].MatchValue)
    /\ (last.fn \in {"score_combo", "avg_matchvalue"} /\ Len(last.args[1]) = 2) =>
          LET a == last.args[1][1]
              b == last.args[1][2]
              found == IF last.fn = "score_combo" THEN last.value ELSE last.value[1]
          IN  /\ \A i \in Joining(a, b) : IsValue(found, matches_df[i].MatchValue)
              /\ Joining(a, b) = {} => IsValue(found, 1)

\* C8, amended: every edge with two names is listed under both in the lookup;
\* the value found for a pair is the same in either order, and is the value of
\* the first row of the list that joins the two names, 1 when no row does.
C8_PairValueFirstRow ==
    /\ last.fn = "build_matches_lookup" =>
          \A i \in DOMAIN matches_df :
              (matches_df[i].A # "" /\ matches_df[i].B # "") =>
                  /\ Listed(last.value, matches_df[i].A, matches_df[i].B,
                            matches_df[i].MatchValue)
                  /\ Listed(last.value, matches_df[i].B, matches_df[i].A,
                            matches_df[i].MatchValue)
    /\ (last.fn = "score_combo" /\ Len(last.args[1]) = 2) =>
          /\ IsValue(last.value, FirstValue(last.args[1][1], last.args[1][2]))
          /\ score_combo(<<last.args[1][2], last.args[1][1]>>, matches_df) = last.value
    /\ (last.fn = "avg_matchvalue" /\ Len(last.args[1]) = 2) =>
          /\ IsValue(last.value[1], FirstValue(last.args[1][1], last.args[1][2]))
          /\ avg_matchvalue(<<last.args[1][2], last.args[1][1]>>, matches_df) = last.value

\* the list holds (A, B, 2) and then (B, A, 3): the value found for (B, A) is 2
C8_Witness ==
    /\ matches_df = <<Edge("A", "B", 2), Edge("B", "A", 3)>>
    /\ last.fn = "score_combo"
    /\ last.args[1] = <<"B", "A">>
    /\ IsValue(last.value, 2)

\* the three pairs of the positions i < j < k are all joined by a row whose
\* first one has value 2 or more
StrongTriple(ingredients, i, j, k) ==
    \A p \in {<<i, j>>, <<i, k>>, <<j, k>>} :
        /\ Joining(ingredients[p[1]], ingredients[p[2]]) # {}
        /\ FirstValue(ingredients[p[1]], ingredients[p[2]]) >= 2

StrongTriples(ingredients) ==
    {t \in (DOMAIN ingredients) \X (DOMAIN ingredients) \X (DOMAIN ingredients) :
        t[1] < t[2] /\ t[2] < t[3] /\ StrongTriple(ingredients, t[1], t[2], t[3])}

TrianglesReturned ==
    IF last.fn = "avg_matchvalue" THEN last.value[2] ELSE last.value

\* C9: the triangle count of a list is the number of its triples of positions
\* whose three pairs are all strong: 0 for a list of two or fewer, 1 for three
\* ingredients with the three pairs strong.
C9_TriangleCount ==
    last.fn \in {"_count_triangles", "avg_matchvalue"} =>
        /\ TrianglesReturned = Cardinality(StrongTriples(last.args[1]))
        /\ Len(last.args[1]) <= 2 => TrianglesReturned = 0
        /\ (Len(last.args[1]) = 3 /\ StrongTriple(last.args[1], 1, 2, 3))
              => TrianglesReturned = 1

\* four ingredients, of which two triples are strong and two are not
C9_Witness ==
    /\ last.fn = "_count_triangles"
    /\ last.args[1] = <<"D", "B", "A", "C">>
    /\ Len(matches_df) = 6
    /\ last.value = 2

(***************************************************************************)
(* Properties of the upgrade pass (specification SpecPricing)               *)
(***************************************************************************)
Priced == last.fn = "target_based_tiering"

AllNormal == [ing \in Range(variants[1].ingredients) |-> "NORMAL"]

\* the cost of the held variant with every ingredient NORMAL
NormalCost == estimate_cost(variants[1].ingredients, AllNormal, ingredients_df)

\* the all-NORMAL cost is under 80% of the target
UpgradeBranch == Priced /\ 10 * NormalCost < 8 * last.args[1]

\* the pricing ran the upgrade pass (line 73)
UpgradePass == Priced /\ LessThanTimes(NormalCost, last.args[1], 8, 10)

\* raising only the hero to FIRST_CHOICE keeps the cost within 105%
HeroFits ==
    100 * estimate_cost(variants[1].ingredients,
                        Put(AllNormal, variants[1].ingredients[1], "FIRST_CHOICE"),
                        ingredients_df)
        <= 105 * last.args[1]

\* C11: in the upgrade branch, when raising only the hero to FIRST_CHOICE
\* keeps the cost within 105% of the target, the hero's returned tier is
\* FIRST_CHOICE or GOURMET. Truffle alone priced for 3.80 costs 3.99 at
\* FIRST_CHOICE, which is 105% of 3.80, and is left NORMAL: 3.8 * 1.05 is
\* the float 3.9899999999999998.
C11_HeroUpgradedAsClaimed ==
    (UpgradeBranch /\ HeroFits) =>
        last.value.tiers[variants[1].ingredients[1]] \in {"FIRST_CHOICE", "GOURMET"}

\* the place of a role in the walk: hero's own place is 0
RoleRank(role) ==
    CASE role \in {"fat", "cheese", "base"} -> 1
      [] role = "complement" -> 2
      [] role = "seasoning" -> 3
      [] OTHER -> 4

\* the positions of the list the walk visits, and the rank of each
Visited ==
    {i \in DOMAIN variants[1].ingredients :
        i = 1 \/ RoleRank(RoleOf(variants[1].roles, variants[1].ingredients[i])) < 4}

RankAt(i) ==
    IF i = 1 THEN 0 ELSE RoleRank(RoleOf(variants[1].roles, variants[1].ingredients[i]))

Before(i, j) == RankAt(i) < RankAt(j) \/ (RankAt(i) = RankAt(j) /\ i < j)

\* the walk of the claim: hero, then fat, cheese and base, then complements,
\* then seasonings, in list order within a group, each position once
ExpectedWalk ==
    [k \in 1..Cardinality(Visited) |->
        variants[1].ingredients[
            CHOOSE i \in Visited : Cardinality({j \in Visited : Before(j, i)}) = k - 1]]

\* the tiers after the first k turns of that walk
RECURSIVE TiersAfter(_)
TiersAfter(k) ==
    IF k = 0 THEN AllNormal
    ELSE UpgradeStep(variants[1].ingredients, TiersAfter(k - 1), last.args[1],
                     ingredients_df, ExpectedWalk[k])

CostAfter(k) == estimate_cost(variants[1].ingredients, TiersAfter(k), ingredients_df)

\* C17: in the upgrade branch the cost after every turn of the walk, and the
\* returned cost, are within 105% of the target; an ingredient ends GOURMET
\* only if the cost with it at FIRST_CHOICE was still under 90% of the target.
\* Lemon alone priced for 1.10 costs 0.99 at FIRST_CHOICE, which is 90% of
\* 1.10 and not under it, and ends GOURMET: 1.1 * 0.9 is the float
\* 0.9900000000000001.
C17_UpgradeCeilingAsClaimed ==
    UpgradeBranch =>
        /\ 100 * last.value.cost <= 105 * last.args[1]
        /\ \A k \in DOMAIN ExpectedWalk :
              /\ 100 * CostAfter(k) <= 105 * last.args[1]
              /\ TiersAfter(k)[ExpectedWalk[k]] = "GOURMET" =>
                    10 * estimate_cost(variants[1].ingredients,
                                       Put(TiersAfter(k - 1), ExpectedWalk[k],
                                           "FIRST_CHOICE"),
                                       ingredients_df)
                        < 9 * last.args[1]
        /\ last.value.tiers = TiersAfter(Len(ExpectedWalk))

\* C18: when the all-NORMAL cost is between 80% and 120% of the target no
\* tier changes and the cost is the all-NORMAL cost; and no call runs both
\* passes: the result is the unchanged tiers, the upgrade pass's alone or the
\* downgrade pass's alone. Basil, Pepper and Capers cost 1.40, which is 80%
\* of 1.75, and priced for 1.75 the hero is raised: 1.75 * 0.8 is the float
\* 1.4000000000000001.
C18_BandUnchangedAsClaimed ==
    Priced =>
        /\ (8 * last.args[1] <= 10 * NormalCost /\ 10 * NormalCost <= 12 * last.args[1])
              => (last.value.tiers = AllNormal /\ last.value.cost = NormalCost)
        /\ <<last.value.tiers, last.value.cost>>
              \in {<<AllNormal, NormalCost>>,
                   upgrade_tiers(variants[1].ingredients, variants[1].roles,
                                 AllNormal, last.args[1], ingredients_df),
                   downgrade_tiers(variants[1].ingredients, variants[1].roles,
                                   AllNormal, last.args[1], ingredients_df)}

\* C19: the upgrade pass walks hero, then fat / cheese / base, then
\* complements, then seasonings, in list order within a group and each
\* ingredient once, and its result is that of this one walk.
C19_UpgradeOrder ==
    Priced =>
        /\ UpgradePriority(variants[1].ingredients, variants[1].roles) = ExpectedWalk
        /\ \A i, j \in DOMAIN ExpectedWalk : ExpectedWalk[i] = ExpectedWalk[j] => i = j
        /\ UpgradePass => last.value.tiers = TiersAfter(Len(ExpectedWalk))

\* a list whose seasonings stand before its cheese and fat: the cheese is
\* reached first and takes GOURMET, the seasonings get what is left
C19_Witness ==
    /\ UpgradePass
    /\ Len(variants[1].ingredients) = 5
    /\ ExpectedWalk # variants[1].ingredients
    /\ ExpectedWalk = <<"Basil", "Parmesan", "Butter", "Pepper", "Capers">>
    /\ last.args[1] = 800 * Cent
    /\ last.value.tiers["Parmesan"] = "GOURMET"
    /\ last.value.tiers["Capers"] = "FIRST_CHOICE"

(***************************************************************************)
(* Properties of the fit (specification SpecFit)                           *)
(***************************************************************************)
\* |price - target| / target, for a positive target
Deviation(suggested_price, cost_expectation) ==
    Norm(Frac(Abs(suggested_price - cost_expectation), cost_expectation))

\* a/b <= c/d for a, c >= 0 and b, d > 0, by whole parts and then the
\* remainders turned over, which keeps every number below the largest given
RECURSIVE QuotientLe(_, _, _, _)
QuotientLe(a, b, c, d) ==
    IF a \div b # c \div d THEN a \div b < c \div d
    ELSE IF a % b = 0 THEN TRUE
    ELSE IF c % d = 0 THEN FALSE
    ELSE QuotientLe(d, c % d, b, a % b)

NotAbove(f, g) == QuotientLe(f.num, f.den, g.num, g.den)

PriceFitAsked == last.fn = "_calculate_price_fit" /\ last.args[2] > 0

\* C12: for a positive cost expectation the price fit is exactly 100 when the
\* price equals the expectation, is never under 20, and no price and
\* expectation that deviate at least as much, relatively, have a higher fit.
C12_PriceFitShape ==
    PriceFitAsked =>
        /\ last.args[1] = last.args[2] => last.value = Whole(100)
        /\ FLe(Whole(20), last.value)
        /\ FLe(last.value, Whole(100))
        /\ \A suggested_price \in FitPrices, cost_expectation \in CostExpectations :
              (/\ cost_expectation > 0
               /\ NotAbove(Deviation(last.args[1], last.args[2]),
                           Deviation(suggested_price, cost_expectation)))
                 => NotAbove(calculate_price_fit(suggested_price, cost_expectation),
                             last.value)

\* a price a hair over 15% above the expectation: the fit is 69.75, just
\* under the 70 of the breakpoint
C12_Witness ==
    /\ PriceFitAsked
    /\ last.args = <<461 * Cent, 400 * Cent>>
    /\ last.value = Frac(279, 4)
    /\ calculate_price_fit(460 * Cent, 400 * Cent) = Whole(70)

\* a segment that names no tag: no favourite, no secondary, no expectation
NoPreferences(segment) ==
    /\ Get(segment, "favourite_tags", {}) = {}
    /\ Get(segment, "secondary_favourite_tags", {}) = {}
    /\ DOMAIN Get(segment, "expectations", EmptyMap) = {}

\* C13: for a segment without preferences the tag fit is exactly 50, asked
\* directly or through segment_fit, whatever the tags of the variant.
C13_NeutralTagFit ==
    /\ (last.fn = "_calculate_tag_fit" /\ NoPreferences(last.args[1]))
          => last.value = Whole(50)
    /\ (last.fn = "segment_fit" /\ NoPreferences(last.args[2]))
          => last.value.tag_fit = Whole(50)

\* the walk-in segment is asked about a variant that carries tags
C13_Witness ==
    /\ last.fn = "_calculate_tag_fit"
    /\ last.args[1] = Walkin
    /\ RecipeTags(variants[1], ingredients_df) # {}
    /\ last.value = Whole(50)

InPercent(f) == FLe(Whole(0), f) /\ FLe(f, Whole(100))

\* C14: each of the four values segment_fit returns lies in [0, 100]. The
\* segment Averse, with the multiplier -1.5 on a tag the variant carries, gets
\* a tag fit of -75.
C14_FitsInPercentAsClaimed ==
    last.fn = "segment_fit" =>
        /\ InPercent(last.value.price_fit)
        /\ InPercent(last.value.tag_fit)
        /\ InPercent(last.value.eval_fit)
        /\ InPercent(last.value.total_fit)

\* C15: the weights segment_fit combines the fits with sum to 1, each is the
\* segment's weight over the sum of the three (a third when the segment gives
\* none), and the total fit lies between the smallest and the largest of the
\* three fits. The segment Fasting gives three weights of 0: they are used as
\* they are and the total fit is 0.
C15_WeightsNormalisedAsClaimed ==
    last.fn = "segment_fit" =>
        LET segment == last.args[2]
            raw == FitWeights_raw(segment)
            sum == FAdd(FAdd(raw.price, raw.tag), raw.eval)
            w == FitWeights(segment)
            fits == {last.value.price_fit, last.value.tag_fit, last.value.eval_fit}
        IN  /\ FAdd(FAdd(w.price, w.tag), w.eval) = Whole(1)
            /\ FMul(w.price, sum) = raw.price
            /\ FMul(w.tag, sum) = raw.tag
            /\ FMul(w.eval, sum) = raw.eval
            /\ (DOMAIN segment \cap {"price_score_weight", "tag_score_weight",
                                     "evaluation_score_weight"} = {})
                  => w = [price |-> Frac(1, 3), tag |-> Frac(1, 3), eval |-> Frac(1, 3)]
            /\ \E f \in fits : FLe(f, last.value.total_fit)
            /\ \E f \in fits : FLe(last.value.total_fit, f)

(***************************************************************************)
(* Properties of the stored compatibility (specification Spec)             *)
(***************************************************************************)
\* C16: the compatibility_avg of every returned variant is the mean of the
\* pair values of its ingredients, a missing pair counting 1, and lies in
\* [1, 3]. score_combo adds 0.5 for every triangle to the mean: Salmon, Pasta
\* and Tomato with values 2, 3, 3 get 2.67 + 0.5.
C16_AverageAsClaimed ==
    ReturnedVariants =>
        \A i \in DOMAIN last.value :
            LET ingredients == last.value[i].ingredients
                compatibility_avg == last.value[i].compatibility_avg
            IN  /\ Len(ingredients) >= 2 =>
                      compatibility_avg.num * PairCount(ingredients)
                          = PairSumFrom(ingredients, matches_df, 1, 2)
                                * compatibility_avg.den
                /\ FLe(Whole(1), compatibility_avg)
                /\ FLe(compatibility_avg, Whole(3))

\* C20: the compatibility bonus on the card of a generated variant lies in
\* [0, 18]. With every pair at 3 the stored average of three ingredients is
\* 3.5 and the bonus 18.75 + 1.
C20_BonusBoundedAsClaimed ==
    (last.fn = "render_variant_card" /\ last.raised = None) =>
        /\ FLe(Whole(0), last.value.rating.compatibility_bonus)
        /\ FLe(last.value.rating.compatibility_bonus, Whole(18))

(***************************************************************************)
(* Properties of the quality bonus (specification SpecRating)              *)
(***************************************************************************)
QualityAsked == last.fn = "quality_bonus"

\* the tier map with every absent name of the given names entered as NORMAL
Completed(tiers, names) ==
    [k \in DOMAIN tiers \cup names |-> IF k \in DOMAIN tiers THEN tiers[k] ELSE "NORMAL"]

\* the entries of a tier map that hold the given tier
Holding(tiers, tier) == {k \in DOMAIN tiers : tiers[k] = tier}

\* two fractions of one value
Same(f, g) == f.num * g.den = g.num * f.den

\* C21: quality_bonus returns min(20, 0.7 x the number of FIRST_CHOICE entries
\* + 1.4 x the number of GOURMET entries); NORMAL, absent and unknown tiers add
\* nothing, so the bonus of an empty or partial map is a value (no error) and
\* equals the bonus of the map completed with NORMAL for the absent names.
C21_QualityBonus ==
    QualityAsked =>
        LET tiers == last.args[1]
            tenths == 7 * Cardinality(Holding(tiers, "FIRST_CHOICE"))
                          + 14 * Cardinality(Holding(tiers, "GOURMET"))
        IN  /\ last.raised = None
            /\ Same(last.value, IF tenths >= 200 THEN Whole(20) ELSE Frac(tenths, 10))
            /\ \A names \in SUBSET TierKeys :
                  Same(quality_bonus(Completed(tiers, names), 20), last.value)

\* a partial map with an unknown tier: two of four names, one GOURMET
C21_Witness ==
    /\ QualityAsked
    /\ last.args[1] = [k \in {"Salmon", "Tomato"} |-> IF k = "Salmon" THEN "GOURMET" ELSE "PREMIUM"]
    /\ Same(last.value, Frac(14, 10))

(***************************************************************************)
(* Properties of the roles (specification SpecRoles)                       *)
(***************************************************************************)
RolesAsked == last.fn = "role_assignment"

\* the positions of the non-anchor ingredients a base can be made of
BaseCandidates ==
    {i \in DOMAIN last.args[3] :
        \E row \in Range(ingredients_df) :
            row.name = last.args[3][i] /\ row.tags \cap {"Pasta", "Rice", "Carbs"} # {}}

BaseRoles == {ing \in DOMAIN last.value : last.value[ing] = "base"}

\* C22: for a template of the category Pasta & Riso with a non-anchor
\* ingredient tagged Pasta, Rice or Carbs, exactly the first such ingredient
\* has the role base; for a template of any other category none has.
C22_BaseAsClaimed ==
    RolesAsked =>
        IF TEMPLATES_CATALOG[last.args[1]].category = "Pasta & Riso" /\ BaseCandidates # {}
        THEN BaseRoles = {last.args[3][CHOOSE i \in BaseCandidates : \A j \in BaseCandidates : i <= j]}
        ELSE BaseRoles = {}

(***************************************************************************)
(* Properties of the generated lists (specification Spec)                  *)
(***************************************************************************)
\* no ingredient of the variant is a catalog row tagged Meat or Seafood
Meatless(variant) ==
    \A ing \in Range(variant.ingredients), row \in Range(ingredients_df) :
        row.name = ing => row.tags \cap {"Meat", "Seafood"} = {}

\* C23: for a vegetarian template and for Veggie Burger no ingredient of a
\* variant, built or returned, anchor included, is tagged Meat or Seafood,
\* whichever style and whichever window of candidates it was drawn from.
C23_NoMeatOrSeafood ==
    /\ (call.pc # "idle" /\ call.template \in MeatlessTemplates)
          => \A i \in DOMAIN call.variants : Meatless(call.variants[i])
    /\ (ReturnedVariants /\ last.args[3] \in MeatlessTemplates)
          => \A i \in DOMAIN last.value : Meatless(last.value[i])

\* three variants of Grilled Veggies on Tomato from the catalog that has Bacon:
\* each is Tomato with Pasta, drawn from the whole pool after the style filter
\* and the window came up short
C23_Witness ==
    /\ ReturnedVariants
    /\ last.args[3] = "Grilled Veggies"
    /\ last.args[4] = "Tomato"
    /\ ingredients_df = MeatCatalog
    /\ Len(last.value) = 3
    /\ \A i \in 1..3 : last.value[i].ingredients = <<"Tomato", "Pasta">>
    /\ last.value[2].style = "fresco"

(***************************************************************************)
(* Properties of the sampled lists (specification SpecSample)              *)
(***************************************************************************)
\* the longest list the template of the call may get
LongestList(template) ==
    LET range == get_ingredient_range(get_template_category(template))
    IN  Min(range[2], range[1] + 4)

ListShape(variant, template, anchor) ==
    /\ \A i, j \in DOMAIN variant.ingredients : i # j => variant.ingredients[i] # variant.ingredients[j]
    /\ Cardinality({i \in DOMAIN variant.ingredients : variant.ingredients[i] = anchor}) = 1
    /\ Len(variant.ingredients) >= 1
    /\ Len(variant.ingredients) <= LongestList(template)

\* the i-th variant of the call in progress (i counted from 1) is as long as
\* some target count of the range allows: the target, or the anchor with the
\* whole window when the window is shorter
StoppedAsClaimed(i) ==
    \E target_count \in get_ingredient_range(get_template_category(call.template))[1]..LongestList(call.template) :
        Len(call.variants[i].ingredients)
            = Min(target_count,
                  1 + Len(AvailableCandidates(call.candidate_pool[1], StyleOfTurn(i - 1),
                                              i - 1, target_count - 1)))

\* C24: every generated variant, built or returned, lists no name twice, the
\* anchor exactly once, and between 1 and min(max, min + 4) names for the range
\* (min, max) of the template's category; its length is that of a draw that
\* stopped at the target count or at the end of the window of candidates.
C24_ListShape ==
    /\ call.pc = "loop"
          => \A i \in DOMAIN call.variants :
                /\ ListShape(call.variants[i], call.template, call.anchor_name)
                /\ StoppedAsClaimed(i)
    /\ ReturnedVariants
          => \A i \in DOMAIN last.value : ListShape(last.value[i], last.args[3], last.args[4])

\* Pasta on Tomato from the long catalog: ten names, the longest list of the
\* range (6, 12), with a row of the pool left undrawn
C24_Witness ==
    /\ ReturnedVariants
    /\ last.args[3] = "Pasta"
    /\ last.args[4] = "Tomato"
    /\ ingredients_df = LongCatalog
    /\ Len(last.value[1].ingredients) = 10
    /\ "Basil" \in Range(last.value[1].ingredients)

(***************************************************************************)
(* What the calls of a card leave alone (specification SpecCard)           *)
(***************************************************************************)
\* the fields of a variant that pricing does not produce
SameButTiers(after, before) ==
    /\ after.ingredients = before.ingredients
    /\ after.roles = before.roles
    /\ after.flavor_profile = before.flavor_profile
    /\ after.compatibility_avg = before.compatibility_avg
    /\ after.triangles = before.triangles
    /\ after.notes = before.notes
    /\ after.style = before.style

\* C25: a step of get_rating_breakdown or of segment_fit leaves every held
\* variant, its tier map included, as it was, and get_rating_breakdown was
\* handed that tier map; a step of target_based_tiering changes nothing of a
\* variant but the tier map, which becomes the one it returned.
C25_FrameEffects ==
    [][/\ last'.fn \in {"get_rating_breakdown", "segment_fit"} => variants' = variants
       /\ last'.fn = "get_rating_breakdown"
             => last'.args[5] = variants[1].tiers /\ variants'[1].tiers = last'.args[5]
       /\ last'.fn = "target_based_tiering"
             => /\ DOMAIN variants' = DOMAIN variants
                /\ \A i \in DOMAIN variants : SameButTiers(variants'[i], variants[i])
                /\ variants'[1].tiers = last'.value.tiers]_vars

\* a fitted card of the five-name list whose seasonings stand before its
\* cheese and fat, priced with tiers raised: the list is still in its order
C25_Witness ==
    /\ last.fn = "segment_fit"
    /\ variants[1].ingredients = <<"Basil", "Pepper", "Capers", "Parmesan", "Butter">>
    /\ variants[1].tiers["Basil"] = "GOURMET"
    /\ last.args[4].tiers = variants[1].tiers

(***************************************************************************)
(* A failing request and what the session holds (specification SpecSession)*)
(***************************************************************************)
\* the step is part of a request that has not returned: the button was
\* pressed, or the call went on, or it raised
RequestStep == call'.pc # "idle" \/ (call.pc # "idle" /\ last'.raised # None)

\* C26: no step of a request, from the press of the button to the exception
\* that ends it, changes the stored variants, the list of menu items, or a
\* tier dictionary a menu item refers to; so after a failing request they are
\* what they were before it, whatever requests came earlier.
C26_FailureKeepsSession ==
    [][RequestStep => /\ variants' = variants
                      /\ menu_items' = menu_items
                      /\ tier_dicts' = tier_dicts]_vars

\* a request for Grilled Fish on Pasta has been refused while three variants
\* of an earlier request and a saved recipe are held
C26_Witness ==
    /\ last.fn = "generate_variants"
    /\ last.raised = "ValueError: template incompatible"
    /\ last.args[3] = "Grilled Fish"
    /\ Len(variants) = 3
    /\ Len(menu_items) = 1
    /\ ItemView(menu_items, tier_dicts, 1).tiers = variants[1].tiers


(***************************************************************************)
(* Saved recipes and their edits (specification SpecMenu)                  *)
(***************************************************************************)
\* C29, as claimed: a saved edit of one menu item leaves every other menu
\* item, its tier map included, as it was.
C29_EditsOneItem ==
    [][last'.fn = "save_edit"
          => \A j \in DOMAIN menu_items :
                j # last'.args[1]
                   => ItemView(menu_items', tier_dicts', j)
                         = ItemView(menu_items, tier_dicts, j)]_vars

(***************************************************************************)
(* The downgrade pass and the price (specification SpecPricing)            *)
(***************************************************************************)
\* the all-NORMAL cost is more than 120% of the target
AboveBand == Priced /\ 10 * NormalCost > 12 * last.args[1]

\* C27: whenever the all-NORMAL cost exceeds 1.2 x target, the returned tier
\* map is all NORMAL and the returned cost is the all-NORMAL cost; the
\* downgrade pass, started from all NORMAL, returns what it was given.
C27_DowngradeChangesNothing ==
    /\ AboveBand => last.value.tiers = AllNormal /\ last.value.cost = NormalCost
    /\ Priced => downgrade_tiers(variants[1].ingredients, variants[1].roles, AllNormal,
                                 last.args[1], ingredients_df) = <<AllNormal, NormalCost>>

\* Salmon, Pasta and Tomato cost more than 120% of a target of 1.00 and are
\* returned all NORMAL at their all-NORMAL cost, which is still above it
C27_Witness ==
    /\ AboveBand
    /\ variants[1].ingredients = <<"Salmon", "Pasta", "Tomato">>
    /\ last.args[1] = 100 * Cent
    /\ last.value.tiers = AllNormal
    /\ last.value.cost = NormalCost
    /\ 10 * last.value.cost > 12 * last.args[1]

\* C28, as claimed: the suggested price is never lower than the returned cost.
C28_PriceCoversCost ==
    (Priced /\ last.args[1] > 0) => last.value.price >= last.value.cost

(***************************************************************************)
(* The rule table and the check (specification SpecRules)                  *)
(***************************************************************************)
\* what the rule table says of an anchor for a compatibility type
TableRejects(type, anchor_tags) ==
    \/ type = "fish" /\ TEMPLATE_RULES.fish_required_tags \cap anchor_tags = {}
    \/ type = "meat" /\ TEMPLATE_RULES.meat_required_tags \cap anchor_tags = {}
    \/ type = "vegetarian" /\ TEMPLATE_RULES.vegetarian_forbidden_tags \cap anchor_tags # {}
    \/ type = "dessert" /\ TEMPLATE_RULES.dessert_forbidden_main_tags \cap anchor_tags # {}

\* C30, as claimed: for every template of the catalog and every anchor tag
\* set, the check rejects the anchor exactly when the rule table does for the
\* compatibility type of the template.
C30_EncodingsAgree ==
    (last.fn = "check_template_compatibility" /\ last.args[1] \in DOMAIN TEMPLATES_CATALOG)
        => (~last.value.verdict.is_compatible
               <=> TableRejects(last.value.type, last.args[2].tags))
====
